---- MODULE Spec2Model ----
(***************************************************************************)
(* Word-to-Table: the heuristic table extractor (SmartTableExtractor) and  *)
(* the rule-based classifier (parse_docx).                                 *)
(*                                                                         *)
(* Text is a sequence of one-character strings, so that cleaning, typing   *)
(* and length statistics are computed on characters as the code does.     *)
(* Row and start-row indices are 0-based as in the Python source; row i of *)
(* a grid is the (i+1)-th element of the TLA+ sequence.                    *)
(***************************************************************************)
EXTENDS Integers, Sequences, FiniteSets, TLC

VARIABLES
    pc,               \* position of the process_table call
    table,            \* the raw table block handed to process_table
    header_callback,  \* TRUE iff a header-selection callback was supplied
    cb,               \* what the callback did, once it has been invoked
    loc,              \* locals of process_table (rows_data, votes, start_row, ...)
    ret,              \* the (df, metadata) pair returned by process_table
    rules,            \* parse_docx: the rule list returned by load_rules
    blocks,           \* parse_docx: the document's blocks, in document order
    pos,              \* parse_docx: number of blocks consumed so far
    last_context,     \* parse_docx: text of the last non-empty paragraph
    table_count,      \* parse_docx: number of table blocks seen
    data_store,       \* parse_docx: target -> list of data frames
    walk,             \* parse_docx: "walking", "done" (returned) or "raised"
    log,              \* parse_docx: per table, what the rule scan did
    page_number,      \* extract_all_with_pages: the page counter
    paragraph_count,  \* extract_all_with_pages: paragraphs seen
    results,          \* extract_all_with_pages: the extracted tables
    stray_text_by_page, \* extract_all_with_pages: page -> stray paragraphs
    extracted,        \* extract_all_with_pages: the returned dict, or None
    call,             \* a call of check_condition or evaluate_rule: fn and argument
    fields,           \* its header_text, first_data_row and last_context
    answer,           \* what the call returned, once it has ended
    btn_extract,      \* desktop UI: state of the Extract button
    threads,          \* desktop UI: the worker threads started so far
    after_queue,      \* desktop UI: callbacks handed to self.after(0, ...)
    dialog,           \* desktop UI: the thread whose dialog is open, or 0
    finish_calls      \* desktop UI: number of finish_extraction calls

tvars == <<pc, table, header_callback, cb, loc, ret>>
dvars == <<rules, blocks, pos, last_context, table_count, data_store, walk, log>>
evars == <<call, fields, answer>>
pvars == <<page_number, paragraph_count, results, stray_text_by_page, extracted>>
uvars == <<btn_extract, threads, after_queue, dialog, finish_calls>>
vars == <<pc, table, header_callback, cb, loc, ret,
          rules, blocks, pos, last_context, table_count, data_store, walk, log,
          page_number, paragraph_count, results, stray_text_by_page, extracted,
          call, fields, answer,
          btn_extract, threads, after_queue, dialog, finish_calls>>

----------------------------------------------------------------------------
(* Bounds of the model *)

MaxRows == 4
MaxCols == 2
MaxCells == 5
MaxBlocks == 3
MaxRules == 2
MaxChildren == 2
MaxSubrules == 2
MaxTextLen == 4

----------------------------------------------------------------------------
(* Python helpers *)

None == "None"

Digits == {"0", "1", "2", "3", "4", "5", "6", "7", "8", "9"}

Whitespace == {" ", "\t", "\n"}

Max(S) == CHOOSE x \in S : \A y \in S : y <= x

\* seq[i] with Python's negative indices; "IndexError" when out of range
PyInRange(seq, i) == i < Len(seq) /\ i >= 0 - Len(seq)
PyIndex(seq, i) == IF i >= 0 THEN seq[i + 1] ELSE seq[Len(seq) + i + 1]

\* the slice bound Python computes for seq[:k] and seq[k:]
PyClamp(seq, k) ==
    IF k < 0 THEN (IF Len(seq) + k < 0 THEN 0 ELSE Len(seq) + k)
    ELSE IF k > Len(seq) THEN Len(seq) ELSE k
PySliceTo(seq, k) == SubSeq(seq, 1, PyClamp(seq, k))
PySliceFrom(seq, k) == SubSeq(seq, PyClamp(seq, k) + 1, Len(seq))

\* a Python list built by a comprehension: the elements are computed once
AsList(f) == f \o <<>>

\* str(n) for a natural number n
RECURSIVE IntToStr(_)
IntToStr(n) ==
    LET d == <<"0", "1", "2", "3", "4", "5", "6", "7", "8", "9">>
    IN  IF n < 10 THEN <<d[n + 1]>> ELSE IntToStr(n \div 10) \o <<d[(n % 10) + 1]>>

----------------------------------------------------------------------------
(* get_cell_text: re.sub(r'\s+', ' ', text).strip() *)

RECURSIVE DropSpaces(_)
DropSpaces(s) ==
    IF s # <<>> /\ Head(s) \in Whitespace THEN DropSpaces(Tail(s)) ELSE s

\* every run of whitespace becomes one space: the first character of a run
\* is kept, as a space, and the rest of the run is dropped
CollapseSpaces(s) ==
    LET Kept(i) == s[i] \notin Whitespace \/ i = 1 \/ s[i - 1] \notin Whitespace
        kept == SelectSeq([i \in 1..Len(s) |-> i], Kept)
    IN  AsList([j \in 1..Len(kept) |->
                  IF s[kept[j]] \in Whitespace THEN " " ELSE s[kept[j]]])

RECURSIVE DropTrailingSpaces(_)
DropTrailingSpaces(s) ==
    IF s # <<>> /\ s[Len(s)] \in Whitespace
    THEN DropTrailingSpaces(SubSeq(s, 1, Len(s) - 1))
    ELSE s

Strip(s) == DropTrailingSpaces(DropSpaces(s))

get_cell_text(text) == Strip(CollapseSpaces(text))

----------------------------------------------------------------------------
(* process_table, step 1: the grid *)

ExtractGrid(t) ==
    AsList([i \in 1..Len(t) |-> AsList([j \in 1..Len(t[i]) |-> get_cell_text(t[i][j])])])

\* variant: the width of the first row instead of the widest row
NumColsFirstRow(rows) == Len(rows[1])
NumCols(rows) == Max({Len(rows[i]) : i \in 1..Len(rows)})

NormalizeRow(row, num_cols) ==
    LET padded == IF Len(row) < num_cols
                  THEN row \o [k \in 1..(num_cols - Len(row)) |-> <<>>]
                  ELSE row
    IN  SubSeq(padded, 1, num_cols)

NormalizeGrid(rows) ==
    LET num_cols == NumCols(rows)
    IN  AsList([i \in 1..Len(rows) |-> NormalizeRow(rows[i], num_cols)])

ColTexts(rows_data, c) == AsList([i \in 1..Len(rows_data) |-> rows_data[i][c]])

----------------------------------------------------------------------------
(* analyze_column_types *)

IsDigitStr(t) == t # <<>> /\ \A k \in 1..Len(t) : t[k] \in Digits

\* re.match(r'^-?\d+(\.\d+)?$', t)
IsFloatStr(t) ==
    LET u == IF t # <<>> /\ Head(t) = "-" THEN Tail(t) ELSE t
    IN  \/ IsDigitStr(u)
        \/ \E k \in 2..(Len(u) - 1) :
              /\ u[k] = "."
              /\ IsDigitStr(SubSeq(u, 1, k - 1))
              /\ IsDigitStr(SubSeq(u, k + 1, Len(u)))

CellType(t) ==
    IF t = <<>> THEN "empty"
    ELSE IF IsDigitStr(t) THEN "int"
    ELSE IF IsFloatStr(t) THEN "float"
    ELSE "text"

analyze_column_types(texts) ==
    AsList([i \in 1..Len(texts) |-> CellType(texts[i])])

----------------------------------------------------------------------------
(* (b) Datatype logic: the scan over the column's types *)

\* one iteration of the loop body; st = [run, first, brk]
ScanStep(st, t, i) ==
    IF st.brk THEN st
    ELSE IF t \in {"int", "float"}
         THEN [run |-> st.run + 1,
               first |-> IF st.run = 0 THEN i ELSE st.first,
               brk |-> FALSE]
    ELSE IF t = "empty"
         THEN IF st.run > 0
              THEN IF st.run >= 2 THEN [st EXCEPT !.brk = TRUE]
                   ELSE [run |-> 0, first |-> -1, brk |-> FALSE]
              ELSE st
    ELSE IF st.run >= 2 THEN [st EXCEPT !.brk = TRUE]
         ELSE [run |-> 0, first |-> -1, brk |-> FALSE]

RECURSIVE ScanTypes(_, _, _)
ScanTypes(types, i, st) ==
    IF i >= Len(types) THEN st
    ELSE ScanTypes(types, i + 1, ScanStep(st, types[i + 1], i))

\* the votes (zero or one) the datatype logic appends for a column
\* variant: a run must have two cells to vote, also at the end of the column
DatatypeVoteRunOfTwo(types) ==
    LET st == ScanTypes(types, 0, [run |-> 0, first |-> -1, brk |-> FALSE])
    IN  IF st.run >= 2 /\ st.first > -1 THEN <<st.first>> ELSE <<>>
DatatypeVote(types) ==
    LET st == ScanTypes(types, 0, [run |-> 0, first |-> -1, brk |-> FALSE])
    IN  IF st.run >= 1 /\ st.first > -1 THEN <<st.first>> ELSE <<>>

----------------------------------------------------------------------------
(* analyze_patterns and (a) Pattern logic *)

NonEmptyLengths(texts) ==
    LET F[i \in 0..Len(texts)] ==
            IF i = 0 THEN <<>>
            ELSE IF texts[i] # <<>> THEN F[i - 1] \o <<Len(texts[i])>> ELSE F[i - 1]
    IN  F[Len(texts)]

CountOf(seq, x) == Cardinality({k \in 1..Len(seq) : seq[k] = x})

\* variant: among the elements with the highest count, the last inserted
MostCommonLast(seq) ==
    LET best == Max({CountOf(seq, seq[k]) : k \in 1..Len(seq)})
        last == CHOOSE k \in 1..Len(seq) :
                    /\ CountOf(seq, seq[k]) = best
                    /\ \A j \in (k + 1)..Len(seq) : CountOf(seq, seq[j]) # best
    IN  seq[last]
\* the first-inserted element with the highest count: statistics.mode and
\* Counter(...).most_common(1)[0][0]
MostCommon(seq) ==
    LET best == Max({CountOf(seq, seq[k]) : k \in 1..Len(seq)})
        first == CHOOSE k \in 1..Len(seq) :
                    /\ CountOf(seq, seq[k]) = best
                    /\ \A j \in 1..(k - 1) : CountOf(seq, seq[j]) # best
    IN  seq[first]

analyze_patterns(texts) ==
    LET lengths == NonEmptyLengths(texts)
    IN  IF lengths = <<>> THEN [mode_len |-> 0, is_consistent |-> FALSE]
        ELSE LET mode_len == MostCommon(lengths)
                 match_count == CountOf(lengths, mode_len)
             IN  [mode_len |-> mode_len,
                  \* match_count / len(lengths) > 0.7
                  is_consistent |-> match_count * 10 > 7 * Len(lengths)]

\* variant: a consistent column votes for row 1 whatever its cell holds
PatternVoteRowOne(texts) ==
    IF analyze_patterns(texts).is_consistent /\ Len(texts) > 1 THEN <<1>> ELSE <<>>

\* lines 144-152: the pattern vote of a column
PatternVote(texts) ==
    LET p == analyze_patterns(texts)
        hits == {i \in 0..(Len(texts) - 1) : Len(texts[i + 1]) = p.mode_len}
    IN  IF p.is_consistent /\ hits # {}
        THEN LET i == CHOOSE m \in hits : \A n \in hits : m <= n
             IN  IF i > 0 THEN <<i>> ELSE <<>>
        ELSE <<>>

\* variant: a column's pattern vote is cast before its datatype vote
ColumnVotesPatternFirst(rows_data, c) ==
    LET texts == ColTexts(rows_data, c)
    IN  PatternVote(texts) \o DatatypeVote(analyze_column_types(texts))
ColumnVotes(rows_data, c) ==
    LET texts == ColTexts(rows_data, c)
    IN  DatatypeVote(analyze_column_types(texts)) \o PatternVote(texts)

\* per column, what each of the two signals voted (the loop of lines 116-152)
ColumnSignals(rows_data) ==
    AsList([c \in 1..Len(rows_data[1]) |->
        LET texts == ColTexts(rows_data, c)
        IN  [datatype |-> DatatypeVote(analyze_column_types(texts)),
             pattern |-> PatternVote(texts)]])

StartRowVotes(rows_data) ==
    LET nc == Len(rows_data[1])
        F[c \in 0..nc] ==
            IF c = 0 THEN <<>> ELSE F[c - 1] \o ColumnVotes(rows_data, c)
    IN  F[nc]

----------------------------------------------------------------------------
(* Consensus *)

\* variant: the fallback is row 1 whatever the number of rows
ConsensusFallbackRowOne(rows_data) ==
    LET votes == StartRowVotes(rows_data)
    IN  IF votes = <<>>
        THEN [start_row |-> 1, confidence |-> "low", votes |-> votes]
        ELSE [start_row |-> MostCommon(votes),
              confidence |-> "high", votes |-> votes]
Consensus(rows_data) ==
    LET votes == StartRowVotes(rows_data)
    IN  IF votes = <<>>
        THEN [start_row |-> IF Len(rows_data) > 1 THEN 1 ELSE 0,
              confidence |-> "low", votes |-> votes]
        ELSE [start_row |-> MostCommon(votes),
              confidence |-> "high", votes |-> votes]

----------------------------------------------------------------------------
(* Low-confidence escalation: what process_table does with the callback's  *)
(* outcome.  out.kind is "int" (an int was returned), "none" (None),       *)
(* "other" (a value that is not an int) or "raise" (the callback raised).  *)

\* variant: the callback's exception is not caught
EscalateUncaught(start_row, out) ==
    IF out.kind = "int"
    THEN [start_row |-> out.val, confidence |-> "user-defined", raised |-> FALSE]
    ELSE [start_row |-> start_row, confidence |-> "low", raised |-> out.kind = "raise"]
Escalate(start_row, out) ==
    IF out.kind = "int"
    THEN [start_row |-> out.val, confidence |-> "user-defined", raised |-> FALSE]
    ELSE \* None, a non-int, or an exception caught by the except clause
         [start_row |-> start_row, confidence |-> "low", raised |-> FALSE]

----------------------------------------------------------------------------
(* Adjust Start Row if it points to an empty row *)

IsEmptyRow(row) == \A c \in 1..Len(row) : row[c] = <<>>

\* variant: an `if` in place of the `while`, skipping at most one empty row
AdjustStartRowOnce(rows_data, start_row) ==
    IF start_row >= Len(rows_data)
    THEN [raised |-> FALSE, start_row |-> start_row]
    ELSE IF ~PyInRange(rows_data, start_row)
         THEN [raised |-> TRUE, start_row |-> start_row]
    ELSE IF IsEmptyRow(PyIndex(rows_data, start_row))
         THEN [raised |-> FALSE, start_row |-> start_row + 1]
         ELSE [raised |-> FALSE, start_row |-> start_row]
RECURSIVE AdjustStartRow(_, _)
AdjustStartRow(rows_data, start_row) ==
    IF start_row >= Len(rows_data)
    THEN [raised |-> FALSE, start_row |-> start_row]
    ELSE IF ~PyInRange(rows_data, start_row)
         THEN [raised |-> TRUE, start_row |-> start_row]   \* IndexError
    ELSE IF IsEmptyRow(PyIndex(rows_data, start_row))
         THEN AdjustStartRow(rows_data, start_row + 1)
         ELSE [raised |-> FALSE, start_row |-> start_row]

----------------------------------------------------------------------------
(* process_table, step 3: headers *)

NonEmptyCells(row) ==
    LET F[i \in 0..Len(row)] ==
            IF i = 0 THEN <<>>
            ELSE IF row[i] # <<>> THEN F[i - 1] \o <<row[i]>> ELSE F[i - 1]
    IN  F[Len(row)]

\* variant: only a row with a single non-empty cell counts as a title
SkipRow0SingleCell(header_rows) ==
    /\ Len(header_rows) > 0
    /\ Len(NonEmptyCells(header_rows[1])) = 1
SkipRow0(header_rows) ==
    /\ Len(header_rows) > 0
    /\ LET non_empty_r0 == NonEmptyCells(header_rows[1])
           unique_r0 == {non_empty_r0[k] : k \in 1..Len(non_empty_r0)}
       IN  /\ Len(non_empty_r0) > 0
           /\ (Cardinality(unique_r0) = 1 \/ Len(non_empty_r0) = 1)

\* headers[c] after the loop over header_rows (c is 1-based here)
HeaderText(header_rows, c) ==
    LET skip == SkipRow0(header_rows)
        F[r \in 0..Len(header_rows)] ==
            IF r = 0 THEN <<>>
            ELSE IF r = 1 /\ skip THEN F[r - 1]
            ELSE LET text == header_rows[r][c]
                 IN  IF text = <<>> THEN F[r - 1]
                     ELSE IF F[r - 1] # <<>> THEN F[r - 1] \o <<" ">> \o text
                     ELSE text
    IN  F[Len(header_rows)]

ColumnPrefix == <<"C", "o", "l", "u", "m", "n", "_">>

\* variant: the 0-based index in the generated name
GenericNameZeroBased(c) == ColumnPrefix \o IntToStr(c - 1)
\* f"Column_{i+1}" for the 0-based index i; c = i + 1 is the 1-based column
GenericName(c) == ColumnPrefix \o IntToStr(c)

Headers(header_rows, num_cols) ==
    AsList([c \in 1..num_cols |->
        LET h == HeaderText(header_rows, c)
        IN  IF h = <<>> THEN GenericName(c) ELSE h])

----------------------------------------------------------------------------
(* process_table, step 4: the data table *)

NormalizeData(data_rows, n) ==
    AsList([i \in 1..Len(data_rows) |-> NormalizeRow(data_rows[i], n)])

\* pd.DataFrame(data, columns=...) raises when a row's width differs from
\* the number of column names
DataFrameFails(data, columns) ==
    \E i \in 1..Len(data) : Len(data[i]) # Len(columns)

\* pd.DataFrame(data): positional column labels 0, 1, ...
PositionalColumns(data) ==
    IF data = <<>> THEN <<>>
    ELSE AsList([c \in 1..Max({Len(data[i]) : i \in 1..Len(data)}) |-> IntToStr(c - 1)])

\* what the two pd.DataFrame calls of lines 226 and 231 do for reasons of
\* their own: both succeed, the one with column names raises, both raise
PandasOk == "ok"
PandasOutcomes == {PandasOk, "named_fails", "both_fail"}

\* lines 225-234: the frame with the synthesized names, else the frame with
\* positional labels (integers, marked by the field positional), else no frame
BuildFrame(data, columns, pandas) ==
    IF pandas = PandasOk /\ ~DataFrameFails(data, columns)
    THEN [failed |-> FALSE, df |-> [columns |-> columns, rows |-> data]]
    ELSE IF pandas = "both_fail"
    THEN [failed |-> TRUE, df |-> [columns |-> <<>>, rows |-> <<>>]]
    ELSE [failed |-> FALSE,
          df |-> [columns |-> PositionalColumns(data), rows |-> data,
                  positional |-> TRUE]]

MakeDataFrame(data, columns) == BuildFrame(data, columns, PandasOk).df

EmptyFrame == [columns |-> <<>>, rows |-> <<>>]

\* df.empty
DfEmpty(df) == Len(df.rows) = 0 \/ Len(df.columns) = 0

NoMeta == [start_row |-> 0, confidence |-> "none"]

----------------------------------------------------------------------------
(* process_table from the resolved start row to the return statement *)

FinishTableWith(rows_data, votes, resolved, confidence, pandas) ==
    LET adj == AdjustStartRow(rows_data, resolved)
        start_row == adj.start_row
        header_rows == PySliceTo(rows_data, start_row)
        data_rows == PySliceFrom(rows_data, start_row)
        headers == Headers(header_rows, Len(rows_data[1]))
        base == [rows_data |-> rows_data, votes |-> votes,
                 signals |-> ColumnSignals(rows_data),
                 resolved |-> resolved, start_row |-> start_row,
                 confidence |-> confidence]
    IN  IF adj.raised
        THEN [pc |-> "raised",
              loc |-> base,
              ret |-> [df |-> EmptyFrame, meta |-> NoMeta]]
        ELSE [pc |-> "returned",
              loc |-> base,
              ret |-> LET built == BuildFrame(NormalizeData(data_rows, Len(headers)),
                                              headers, pandas)
                      IN  IF built.failed
                          THEN [df |-> EmptyFrame, meta |-> NoMeta]   \* line 234
                          ELSE [df |-> built.df,
                                meta |-> [start_row |-> start_row,
                                          confidence |-> confidence]]]

\* process_table from the resolved start row when pandas builds the frame
\* at the first attempt
FinishTable(rows_data, votes, resolved, confidence) ==
    FinishTableWith(rows_data, votes, resolved, confidence, PandasOk)

----------------------------------------------------------------------------
(* Inputs *)

\* raw cell texts: blank, text with trailing whitespace, an int
CellPool == { <<>>, <<"A", " ">>, <<"1", "2">> }

\* more texts for single-column tables: a longer text and a float
WidePool == CellPool \cup { <<"A", "B">>, <<"-", "1", ".", "5">> }

RawRows == UNION {[1..n -> CellPool] : n \in 1..MaxCols}

\* every table of at most r rows and at most `cells` cells, rows of any
\* width up to MaxCols (rows of a table may differ in width)
RECURSIVE TablesUpTo(_, _)
TablesUpTo(r, cells) ==
    IF r = 0 THEN {<<>>}
    ELSE {<<>>} \cup
         UNION {{<<row>> \o rest : rest \in TablesUpTo(r - 1, cells - Len(row))} :
                row \in {x \in RawRows : Len(x) <= cells}}

BoundedTables == TablesUpTo(MaxRows, MaxCells)

ColumnTables == UNION {[1..r -> [1..1 -> WidePool]] : r \in 1..MaxRows}

\* Scenario 1 of create_test_docx_phase2.py: partial column names
PartialNamesTable ==
    << << <<"I", "D">>, <<>>, <<"V", "a", "l", "u", "e">>, <<>> >>,
       << <<"1">>, <<"A">>, <<"1", "0", "0">>, <<"X">> >>,
       << <<"2">>, <<"B">>, <<"2", "0", "0">>, <<"Y">> >>,
       << <<"3">>, <<"C">>, <<"3", "0", "0">>, <<"Z">> >> >>

Tables == BoundedTables \cup ColumnTables \cup {PartialNamesTable}

\* what a header-selection callback can do
CallbackOutcomes ==
    {[kind |-> "int", val |-> v] : v \in (0 - MaxRows - 1)..(MaxRows + 1)}
    \cup {[kind |-> k, val |-> 0] : k \in {"none", "other", "raise"}}

NotCalled == [kind |-> "notcalled", val |-> 0]

NoLocals == [rows_data |-> <<>>, votes |-> <<>>, signals |-> <<>>, resolved |-> 0,
             start_row |-> 0, confidence |-> "none"]

----------------------------------------------------------------------------
(* The state machine of one process_table call *)

TableIdle ==
    /\ pc = "idle"
    /\ table = <<>>
    /\ header_callback = FALSE
    /\ cb = NotCalled
    /\ loc = NoLocals
    /\ ret = [df |-> EmptyFrame, meta |-> NoMeta]

\* no document is being parsed
NoDocument ==
    /\ rules = <<>>
    /\ blocks = <<>>
    /\ pos = 0
    /\ last_context = <<>>
    /\ table_count = 0
    /\ data_store = <<>>
    /\ walk = "done"
    /\ log = <<>>

\* no extract_all_with_pages pass is running
NoPass ==
    /\ page_number = 1
    /\ paragraph_count = 0
    /\ results = <<>>
    /\ stray_text_by_page = <<>>
    /\ extracted = None

\* no rule or condition is being evaluated on its own
NoCall ==
    /\ call = [fn |-> "none", arg |-> <<>>]
    /\ fields = [header_text |-> <<>>, first_data_row |-> <<>>, context |-> <<>>]
    /\ answer = [ended |-> FALSE, ret |-> None]

\* the desktop UI as WordTableApp.__init__ leaves it: nothing started
AppIdle ==
    /\ btn_extract = "normal"
    /\ threads = <<>>
    /\ after_queue = <<>>
    /\ dialog = 0
    /\ finish_calls = 0

Init == TableIdle /\ NoDocument /\ NoPass /\ NoCall /\ AppIdle

\* process_table up to the callback (lines 93-168), or to its return when
\* the callback is not consulted
ProcessTable ==
    /\ pc = "idle"
    /\ \E t \in Tables, hc \in BOOLEAN :
        /\ table' = t
        /\ header_callback' = hc
        /\ cb' = NotCalled
        /\ IF t = <<>>
           THEN /\ pc' = "returned"
                /\ loc' = NoLocals
                /\ ret' = [df |-> EmptyFrame, meta |-> NoMeta]
           ELSE LET rows_data == NormalizeGrid(ExtractGrid(t))
                    c == Consensus(rows_data)
                IN  IF c.confidence = "low" /\ hc
                    THEN /\ pc' = "callback"
                         /\ loc' = [rows_data |-> rows_data, votes |-> c.votes,
                                    signals |-> ColumnSignals(rows_data),
                                    resolved |-> c.start_row,
                                    start_row |-> c.start_row,
                                    confidence |-> c.confidence]
                         /\ ret' = ret
                    ELSE LET f == FinishTable(rows_data, c.votes, c.start_row, c.confidence)
                         IN  /\ pc' = f.pc
                             /\ loc' = f.loc
                             /\ ret' = f.ret
    /\ UNCHANGED dvars
    /\ UNCHANGED pvars
    /\ UNCHANGED evars
    /\ UNCHANGED uvars

\* the callback returns or raises, and process_table runs to its end
\* (lines 168-236)
CallbackDone ==
    /\ pc = "callback"
    /\ \E out \in CallbackOutcomes :
        LET e == Escalate(loc.start_row, out)
            f == FinishTable(loc.rows_data, loc.votes, e.start_row, e.confidence)
        IN  /\ cb' = out
            /\ pc' = IF e.raised THEN "raised" ELSE f.pc
            /\ loc' = f.loc
            /\ ret' = f.ret
    /\ UNCHANGED <<table, header_callback>>
    /\ UNCHANGED dvars
    /\ UNCHANGED pvars
    /\ UNCHANGED evars
    /\ UNCHANGED uvars

Next == ProcessTable \/ CallbackDone

Spec == Init /\ [][Next]_vars

TypeOK ==
    /\ pc \in {"idle", "callback", "returned", "raised"}
    /\ header_callback \in BOOLEAN

----------------------------------------------------------------------------
(* word_to_table.py: text helpers *)

Upper == <<"A", "B", "C", "D", "E", "F", "G", "H", "I", "J", "K", "L", "M",
           "N", "O", "P", "Q", "R", "S", "T", "U", "V", "W", "X", "Y", "Z">>
Lower == <<"a", "b", "c", "d", "e", "f", "g", "h", "i", "j", "k", "l", "m",
           "n", "o", "p", "q", "r", "s", "t", "u", "v", "w", "x", "y", "z">>

LowerChar(ch) ==
    IF \E k \in 1..Len(Upper) : Upper[k] = ch
    THEN Lower[CHOOSE k \in 1..Len(Upper) : Upper[k] = ch]
    ELSE ch

\* str.lower()
LowerStr(t) == AsList([k \in 1..Len(t) |-> LowerChar(t[k])])

\* val in text
Contains(val, text) ==
    \E i \in 0..(Len(text) - Len(val)) : SubSeq(text, i + 1, i + Len(val)) = val

clean_text(text) == IF text = <<>> THEN <<>> ELSE Strip(CollapseSpaces(text))

\* " ".join(texts)
JoinSpace(texts) ==
    LET F[i \in 0..Len(texts)] ==
            IF i = 0 THEN <<>>
            ELSE IF i = 1 THEN texts[1]
            ELSE F[i - 1] \o <<" ">> \o texts[i]
    IN  F[Len(texts)]

CleanRow(row) == AsList([j \in 1..Len(row) |-> clean_text(row[j])])

get_table_header_text(t) ==
    IF Len(t) = 0 THEN <<>> ELSE JoinSpace(CleanRow(t[1]))

get_first_data_row_text(t) ==
    IF Len(t) < 2 THEN <<>> ELSE JoinSpace(CleanRow(t[2]))

IsWordChar(ch) ==
    \/ ch \in Digits
    \/ ch = "_"
    \/ \E k \in 1..Len(Upper) : ch = Upper[k] \/ ch = Lower[k]

\* re.search(r'^(.*?)\s+DN\b', text, re.IGNORECASE): the start of the first
\* whitespace run that is followed by "DN" and a word boundary, or -1
DnMatchStart(text) ==
    LET ok(i) ==
            /\ text[i] \in Whitespace
            /\ \E j \in (i + 1)..(Len(text) - 1) :
                /\ \A k \in i..(j - 1) : text[k] \in Whitespace
                /\ LowerChar(text[j]) = "d"
                /\ LowerChar(text[j + 1]) = "n"
                /\ (j + 2 > Len(text) \/ ~IsWordChar(text[j + 2]))
        starts == {i \in 1..Len(text) : ok(i)}
    IN  IF starts = {} THEN -1 ELSE CHOOSE i \in starts : \A m \in starts : i <= m

truncate_assemblies_context(text) ==
    LET i == DnMatchStart(text)
    IN  IF i > -1 THEN Strip(SubSeq(text, 1, i - 1)) ELSE Strip(text)

----------------------------------------------------------------------------
(* re.search for the patterns the rule files of the model use: literal     *)
(* characters, ".", a leading "^", a trailing "$" and groups.  A pattern   *)
(* whose parentheses do not balance cannot be compiled: re.error.          *)

RECURSIVE ParenDepthOk(_, _)
ParenDepthOk(pat, depth) ==
    IF pat = <<>> THEN depth = 0
    ELSE IF Head(pat) = "(" THEN ParenDepthOk(Tail(pat), depth + 1)
    ELSE IF Head(pat) = ")" THEN depth > 0 /\ ParenDepthOk(Tail(pat), depth - 1)
    ELSE ParenDepthOk(Tail(pat), depth)

RegexCompiles(pat) == ParenDepthOk(pat, 0)

RegexBody(pat) ==
    LET F[i \in 0..Len(pat)] ==
            IF i = 0 THEN <<>>
            ELSE IF pat[i] \in {"(", ")"}
                    \/ (i = 1 /\ pat[i] = "^")
                    \/ (i = Len(pat) /\ pat[i] = "$")
                 THEN F[i - 1]
                 ELSE F[i - 1] \o <<pat[i]>>
    IN  F[Len(pat)]

\* bool(re.search(pat, text)) for a pattern that compiles
RegexSearch(pat, text) ==
    LET body == RegexBody(pat)
        anchored == pat # <<>> /\ pat[1] = "^"
        toEnd == pat # <<>> /\ pat[Len(pat)] = "$"
        matchAt(i) ==
            /\ i + Len(body) <= Len(text)
            /\ \A k \in 1..Len(body) : body[k] = "." \/ body[k] = text[i + k]
            /\ toEnd => i + Len(body) = Len(text)
    IN  \E i \in 0..Len(text) : (anchored => i = 0) /\ matchAt(i)

----------------------------------------------------------------------------
(* check_condition and evaluate_rule.  A result is "true", "false" or      *)
(* "raise" (an exception left the call).                                   *)

Get(d, key, default) == IF key \in DOMAIN d THEN d[key] ELSE default

Bool3(b) == IF b THEN "true" ELSE "false"

Regex3(pat, text) ==
    IF RegexCompiles(pat) THEN Bool3(RegexSearch(pat, text)) ELSE "raise"

\* all(...) over a generator: stops at the first false, an exception leaves
RECURSIVE All3(_)
All3(outcomes) ==
    IF outcomes = <<>> THEN "true"
    ELSE IF Head(outcomes) = "true" THEN All3(Tail(outcomes))
    ELSE Head(outcomes)

\* variant: `or` evaluated with all(...) as `and` is
Any3AsAll(outcomes) == All3(outcomes)
\* any(...) over a generator: stops at the first true
RECURSIVE Any3(_)
Any3(outcomes) ==
    IF outcomes = <<>> THEN "false"
    ELSE IF Head(outcomes) = "false" THEN Any3(Tail(outcomes))
    ELSE Head(outcomes)

\* variant: an unrecognised kind is an error instead of a non-match
CheckLeafStrict(c_type, val, header_text, first_data_row, context) ==
    CASE c_type = "header_contains" -> Bool3(Contains(val, header_text))
      [] c_type = "header_contains_ignore_case" ->
            Bool3(Contains(LowerStr(val), LowerStr(header_text)))
      [] c_type = "not_header_contains_ignore_case" ->
            Bool3(~Contains(LowerStr(val), LowerStr(header_text)))
      [] c_type = "header_regex" -> Regex3(val, header_text)
      [] c_type = "data_contains" -> Bool3(Contains(val, first_data_row))
      [] c_type = "data_regex" -> Regex3(val, first_data_row)
      [] c_type = "context_contains" -> Bool3(Contains(val, context))
      [] c_type = "context_contains_ignore_case" ->
            Bool3(Contains(LowerStr(val), LowerStr(context)))
      [] c_type = "not_context_contains_ignore_case" ->
            Bool3(~Contains(LowerStr(val), LowerStr(context)))
      [] OTHER -> "raise"
CheckLeaf(c_type, val, header_text, first_data_row, context) ==
    CASE c_type = "header_contains" -> Bool3(Contains(val, header_text))
      [] c_type = "header_contains_ignore_case" ->
            Bool3(Contains(LowerStr(val), LowerStr(header_text)))
      [] c_type = "not_header_contains_ignore_case" ->
            Bool3(~Contains(LowerStr(val), LowerStr(header_text)))
      [] c_type = "header_regex" -> Regex3(val, header_text)
      [] c_type = "data_contains" -> Bool3(Contains(val, first_data_row))
      [] c_type = "data_regex" -> Regex3(val, first_data_row)
      [] c_type = "context_contains" -> Bool3(Contains(val, context))
      [] c_type = "context_contains_ignore_case" ->
            Bool3(Contains(LowerStr(val), LowerStr(context)))
      [] c_type = "not_context_contains_ignore_case" ->
            Bool3(~Contains(LowerStr(val), LowerStr(context)))
      [] OTHER -> "false"

RECURSIVE check_condition(_, _, _, _)
check_condition(cond, header_text, first_data_row, context) ==
    LET c_type == Get(cond, "type", None)
        val == Get(cond, "value", <<>>)
        subs == Get(cond, "conditions", <<>>)
        sub3 == AsList([k \in 1..Len(subs) |->
                    check_condition(subs[k], header_text, first_data_row, context)])
    IN  IF c_type = "or" THEN Any3(sub3)
        ELSE IF c_type = "and" THEN All3(sub3)
        ELSE CheckLeaf(c_type, val, header_text, first_data_row, context)

\* all(check_condition(c, ...) for c in conds)
AllConditions(conds, header_text, first_data_row, context) ==
    All3(AsList([k \in 1..Len(conds) |->
            check_condition(conds[k], header_text, first_data_row, context)]))

NoResult == [raised |-> FALSE, target |-> None, extra_cols |-> None]

\* variant: the loop does not return at the first matching subrule, the
\* last matching subrule supplies the target
RECURSIVE LastSubrule(_, _, _, _)
LastSubrule(subrules, header_text, first_data_row, context) ==
    IF subrules = <<>> THEN [kind |-> "nomatch", target |-> None]
    ELSE LET r == AllConditions(Get(Head(subrules), "conditions", <<>>),
                                header_text, first_data_row, context)
             rest == LastSubrule(Tail(subrules), header_text, first_data_row, context)
         IN  IF r = "raise" THEN [kind |-> "raise", target |-> None]
             ELSE IF rest.kind # "nomatch" THEN rest
             ELSE IF r = "true"
                  THEN [kind |-> "match", target |-> Get(Head(subrules), "target", None)]
             ELSE rest
\* the first subrule whose conditions hold: its target, or the raise that
\* ended the loop, or "nomatch"
RECURSIVE FirstSubrule(_, _, _, _)
FirstSubrule(subrules, header_text, first_data_row, context) ==
    IF subrules = <<>> THEN [kind |-> "nomatch", target |-> None]
    ELSE LET r == AllConditions(Get(Head(subrules), "conditions", <<>>),
                                header_text, first_data_row, context)
         IN  IF r = "raise" THEN [kind |-> "raise", target |-> None]
             ELSE IF r = "true"
                  THEN [kind |-> "match", target |-> Get(Head(subrules), "target", None)]
             ELSE FirstSubrule(Tail(subrules), header_text, first_data_row, context)

evaluate_rule(rule, header_text, first_data_row, context) ==
    LET main == AllConditions(Get(rule, "conditions", <<>>),
                              header_text, first_data_row, context)
        own == [raised |-> FALSE, target |-> Get(rule, "target", None),
                extra_cols |-> Get(rule, "extra_cols", <<>>)]
    IN  IF main = "raise" THEN [NoResult EXCEPT !.raised = TRUE]
        ELSE IF main = "false" THEN NoResult
        ELSE IF "subrules" \in DOMAIN rule
             THEN LET sub == FirstSubrule(rule.subrules, header_text,
                                          first_data_row, context)
                  IN  IF sub.kind = "raise" THEN [NoResult EXCEPT !.raised = TRUE]
                      ELSE IF sub.kind = "match"
                           THEN [own EXCEPT !.target = sub.target]
                      ELSE IF Get(rule, "target", None) # "VARIOUS" THEN own
                      ELSE NoResult
        ELSE own

----------------------------------------------------------------------------
(* parse_table_to_df (robust_mode = False): a frame is its column labels   *)
(* and its rows, each row a mapping from label to value                    *)

\* dict(zip(keys, text)): a later duplicate key overwrites an earlier one
ZipDict(keys, text) ==
    LET n == IF Len(keys) < Len(text) THEN Len(keys) ELSE Len(text)
    IN  [k \in {keys[i] : i \in 1..n} |->
            text[Max({i \in 1..n : keys[i] = k})]]

\* the labels of seq in order of first appearance
FirstOccurrences(seq) ==
    LET F[i \in 0..Len(seq)] ==
            IF i = 0 THEN <<>>
            ELSE IF \E j \in 1..(i - 1) : seq[j] = seq[i] THEN F[i - 1]
            ELSE F[i - 1] \o <<seq[i]>>
    IN  F[Len(seq)]

parse_table_to_df(t) ==
    IF Len(t) < 2 \/ Len(t[1]) = 0 THEN EmptyFrame
    ELSE LET keys == CleanRow(t[1])
             widest == Max({IF Len(t[i]) < Len(keys) THEN Len(t[i]) ELSE Len(keys) :
                            i \in 2..Len(t)})
         IN  [columns |-> FirstOccurrences(SubSeq(keys, 1, widest)),
              rows |-> AsList([i \in 1..(Len(t) - 1) |-> ZipDict(keys, CleanRow(t[i + 1]))])]

\* df[name] = value
DfAssign(df, name, value) ==
    [columns |-> IF \E k \in 1..Len(df.columns) : df.columns[k] = name
                 THEN df.columns ELSE Append(df.columns, name),
     rows |-> AsList([i \in 1..Len(df.rows) |->
                [k \in DOMAIN df.rows[i] \cup {name} |->
                    IF k = name THEN value ELSE df.rows[i][k]]])]

\* for k, v in extra_cols.items(): df[k] = v
RECURSIVE DfAssignAll(_, _)
DfAssignAll(df, pairs) ==
    IF pairs = <<>> THEN df
    ELSE DfAssignAll(DfAssign(df, Head(pairs)[1], Head(pairs)[2]), Tail(pairs))

BoltingType == <<"B", "o", "l", "t", "i", "n", "g", " ", "T", "y", "p", "e">>
AssemblyType == <<"A", "s", "s", "e", "m", "b", "l", "y", " ", "T", "y", "p", "e">>

\* the frame parse_docx stores for a table matched by `rule`
ClassifiedFrame(t, rule, extra_cols, context) ==
    LET df == parse_table_to_df(t)
        action == Get(rule, "context_action", None)
        withContext ==
            IF action = "full" THEN DfAssign(df, BoltingType, context)
            ELSE IF action = "truncated"
                 THEN DfAssign(df, AssemblyType, truncate_assemblies_context(context))
            ELSE df
    IN  DfAssignAll(withContext, extra_cols)

----------------------------------------------------------------------------
(* parse_docx: the scan of the rule list for one table *)

\* `if target:`
Truthy(target) == target # None /\ target # ""

\* the loop `for rule in rules` from rule k on: how it ends
RECURSIVE ScanRules(_, _, _, _, _)
ScanRules(rs, k, header_text, first_data_row, context) ==
    IF k > Len(rs)
    THEN [raised |-> FALSE, hit |-> 0, evaluated |-> Len(rs),
          target |-> None, extra_cols |-> <<>>]
    ELSE LET r == evaluate_rule(rs[k], header_text, first_data_row, context)
         IN  IF r.raised
             THEN [raised |-> TRUE, hit |-> 0, evaluated |-> k,
                   target |-> None, extra_cols |-> <<>>]
             ELSE IF Truthy(r.target)
                  THEN [raised |-> FALSE, hit |-> k, evaluated |-> k,
                        target |-> r.target, extra_cols |-> r.extra_cols]
             ELSE ScanRules(rs, k + 1, header_text, first_data_row, context)

InitialStore ==
    [k \in {"Bolting_Data", "Assemblies_Data", "Reducing_Piping_Data",
            "Schedule_Table", "Branch_Conn", "Code_Exp", "Pipe_Table",
            "Flange_Table", "Fittings_Table", "Red_Fit_Table", "Valves_Table",
            "Instruments_Table", "Misc_Table", "Piping_Comps_Pg4"} |-> <<>>]

\* data_store[target].append(df), creating the list when the key is new
StoreAppend(store, target, df) ==
    [k \in DOMAIN store \cup {target} |->
        IF k = target
        THEN (IF target \in DOMAIN store THEN Append(store[target], df) ELSE <<df>>)
        ELSE store[k]]

----------------------------------------------------------------------------
(* Inputs of parse_docx *)

Txt_P == <<"P">>
Txt_1 == <<"1">>

RulePipe ==
    [id |-> "R_PIPE",
     conditions |-> <<[type |-> "header_contains", value |-> Txt_P]>>,
     target |-> "Pipe_Table",
     context_action |-> "full"]

RuleBolt ==
    [id |-> "R_BOLT",
     conditions |-> <<[type |-> "context_contains_ignore_case", value |-> <<"b", "o">>]>>,
     target |-> "Bolting_Data",
     context_action |-> "truncated",
     extra_cols |-> << <<<<"S", "r", "c">>, <<"x">>>> >>]

RuleVarious ==
    [id |-> "R_COMP",
     conditions |-> <<[type |-> "header_contains", value |-> Txt_P]>>,
     target |-> "VARIOUS",
     subrules |-> <<[conditions |-> <<[type |-> "data_contains", value |-> Txt_1]>>,
                     target |-> "Flange_Table"]>>]

RuleBadRegex ==
    [id |-> "R_RE",
     conditions |-> <<[type |-> "header_regex", value |-> <<"(", "Q">>]>>,
     target |-> "Misc_Table"]

RuleAny ==
    [id |-> "R_ANY",
     conditions |-> <<[type |-> "or",
                       conditions |-> <<[type |-> "header_regex", value |-> <<"^", ".">>],
                                        [type |-> "unknown_kind", value |-> Txt_P]>>]>>,
     target |-> "New_Target"]

RulePool == {RulePipe, RuleBolt, RuleVarious, RuleBadRegex, RuleAny}

RuleLists == UNION {[1..n -> RulePool] : n \in 0..MaxRules}

Paragraph(text) == [kind |-> "paragraph", text |-> text, rows |-> <<>>]
TableBlk(rows) == [kind |-> "table", text |-> <<>>, rows |-> rows]

BlockPool ==
    { Paragraph(<<" ">>),
      Paragraph(<<"B", "o", "l", "t", " ", " ", "D", "N", " ", "5">>),
      TableBlk(<< <<Txt_P, <<"N">>>>, <<Txt_1, <<"2">>>> >>),
      TableBlk(<< <<Txt_P>>, <<<<"7">>>> >>),
      TableBlk(<< <<<<"Q">>>> >>) }

Documents == UNION {[1..n -> BlockPool] : n \in 0..MaxBlocks}

----------------------------------------------------------------------------
(* parse_docx as a state machine: one action per block of the document *)

InitRules ==
    /\ AppIdle
    /\ TableIdle
    /\ NoPass
    /\ NoCall
    /\ rules \in RuleLists
    /\ blocks \in Documents
    /\ pos = 0
    /\ last_context = <<>>
    /\ table_count = 0
    /\ data_store = InitialStore
    /\ walk = "walking"
    /\ log = <<>>

\* variant: every paragraph, empty or not, becomes the context
NextContextAlways(context, text) == text

\* lines 222-223: if text: last_context = text
NextContext(context, text) == IF text # <<>> THEN text ELSE context

\* a Paragraph block (lines 220-224)
ParagraphBlock ==
    /\ walk = "walking"
    /\ pos < Len(blocks)
    /\ blocks[pos + 1].kind = "paragraph"
    /\ last_context' = NextContext(last_context, clean_text(blocks[pos + 1].text))
    /\ pos' = pos + 1
    /\ UNCHANGED <<rules, blocks, table_count, data_store, walk, log>>
    /\ UNCHANGED tvars
    /\ UNCHANGED pvars
    /\ UNCHANGED evars
    /\ UNCHANGED uvars

\* a Table block (lines 226-264): the whole scan of the rule list
TableBlock ==
    /\ walk = "walking"
    /\ pos < Len(blocks)
    /\ blocks[pos + 1].kind = "table"
    /\ LET t == blocks[pos + 1].rows
           header_text == get_table_header_text(t)
           first_data_row == get_first_data_row_text(t)
           scan == ScanRules(rules, 1, header_text, first_data_row, last_context)
           entry == [table_no |-> table_count + 1, header_text |-> header_text,
                     first_data_row |-> first_data_row, context |-> last_context,
                     evaluated |-> scan.evaluated, hit |-> scan.hit,
                     target |-> scan.target]
       IN  /\ table_count' = table_count + 1
           /\ IF scan.raised
              THEN /\ walk' = "raised"     \* the exception leaves parse_docx
                   /\ UNCHANGED <<pos, data_store, log>>
              ELSE /\ walk' = walk
                   /\ pos' = pos + 1
                   /\ log' = Append(log, entry)
                   /\ data_store' =
                        IF scan.hit = 0 THEN data_store
                        ELSE StoreAppend(data_store, scan.target,
                                [table_no |-> table_count + 1,
                                 df |-> ClassifiedFrame(t, rules[scan.hit],
                                            scan.extra_cols, last_context)])
    /\ UNCHANGED <<rules, blocks, last_context>>
    /\ UNCHANGED tvars
    /\ UNCHANGED pvars
    /\ UNCHANGED evars
    /\ UNCHANGED uvars

\* the loop is over: return data_store (lines 266-267)
ReturnStore ==
    /\ walk = "walking"
    /\ pos = Len(blocks)
    /\ walk' = "done"
    /\ UNCHANGED <<rules, blocks, pos, last_context, table_count, data_store, log>>
    /\ UNCHANGED tvars
    /\ UNCHANGED pvars
    /\ UNCHANGED evars
    /\ UNCHANGED uvars

NextRules == ParagraphBlock \/ TableBlock \/ ReturnStore

SpecRules == InitRules /\ [][NextRules]_vars

----------------------------------------------------------------------------
(* check_condition and evaluate_rule called on their own: the condition    *)
(* trees, the rules and the texts they are given                           *)

LeafHeaderP == [type |-> "header_contains", value |-> Txt_P]
LeafData1 == [type |-> "data_contains", value |-> Txt_1]
LeafUnknown == [type |-> "unknown_kind", value |-> Txt_P]
LeafNoType == [value |-> Txt_P]
LeafBadRegex == [type |-> "header_regex", value |-> <<"(", "Q">>]

Leaves == {LeafHeaderP, LeafData1, LeafUnknown, LeafNoType, LeafBadRegex}

Node(op, children) == [type |-> op, conditions |-> children]

SeqsUpTo(S, n) == UNION {[1..k -> S] : k \in 0..n}

\* the conditions a composite node of the model has as children
SubPool ==
    Leaves \cup { Node("and", <<>>), Node("or", <<>>),
                  Node("or", <<LeafUnknown, LeafHeaderP>>),
                  Node("and", <<LeafHeaderP, LeafNoType>>) }

CondTrees ==
    SubPool \cup {Node(op, cs) : op \in {"and", "or"}, cs \in SeqsUpTo(SubPool, MaxChildren)}

\* the leaf kinds a rule file names after the scheme <field>_<comparator>:
\* the nine kinds check_condition tests for and the three it has no branch for
LeafKindNames ==
    {"header_contains", "header_contains_ignore_case",
     "not_header_contains_ignore_case", "header_regex",
     "data_contains", "data_contains_ignore_case",
     "not_data_contains_ignore_case", "data_regex",
     "context_contains", "context_contains_ignore_case",
     "not_context_contains_ignore_case", "context_regex"}

LeafValues == {<<"P">>, <<"p">>, <<"1">>, <<"B", "o">>, <<"^", "B">>}

KindLeaves == {[type |-> t, value |-> v] : t \in LeafKindNames, v \in LeafValues}

\* the top-level conditions of a rule
TopPool == {LeafHeaderP, LeafUnknown, LeafBadRegex, Node("or", <<LeafUnknown, LeafData1>>)}

SubrulePool ==
    { [conditions |-> <<LeafHeaderP>>, target |-> "Flange_Table"],
      [conditions |-> <<LeafData1>>, target |-> "Valves_Table"],
      [conditions |-> <<LeafBadRegex>>, target |-> "Code_Exp"],
      [target |-> "Misc_Table"] }

\* a rule's own target and extra columns
TargetParts ==
    { [id |-> "R"],
      [id |-> "R", target |-> "VARIOUS"],
      [id |-> "R", target |-> "Pipe_Table",
       extra_cols |-> << <<<<"S", "r", "c">>, <<"x">>>> >>] }

EvalRules ==
    {part @@ [conditions |-> cs] : part \in TargetParts, cs \in SeqsUpTo(TopPool, MaxChildren)}
    \cup {part @@ [conditions |-> cs, subrules |-> subs] :
            part \in TargetParts, cs \in SeqsUpTo(TopPool, MaxChildren),
            subs \in SeqsUpTo(SubrulePool, MaxSubrules)}

FieldTexts ==
    { [header_text |-> <<"P">>, first_data_row |-> <<"1">>, context |-> <<>>],
      [header_text |-> <<"P">>, first_data_row |-> <<"7">>, context |-> <<"B", "o">>],
      [header_text |-> <<"Q">>, first_data_row |-> <<>>, context |-> <<>>] }

InitEval ==
    /\ AppIdle
    /\ TableIdle
    /\ NoDocument
    /\ NoPass
    /\ \/ call \in {[fn |-> "check_condition", arg |-> c] : c \in CondTrees \cup KindLeaves}
       \/ call \in {[fn |-> "evaluate_rule", arg |-> r] : r \in EvalRules}
    /\ fields \in FieldTexts
    /\ answer = [ended |-> FALSE, ret |-> None]

\* check_condition(cond, header_text, first_data_row, last_context)
CheckCondition ==
    /\ call.fn = "check_condition"
    /\ ~answer.ended
    /\ answer' = [ended |-> TRUE,
                  ret |-> check_condition(call.arg, fields.header_text,
                                          fields.first_data_row, fields.context)]
    /\ UNCHANGED <<call, fields>>
    /\ UNCHANGED <<tvars, dvars, pvars, uvars>>

\* evaluate_rule(rule, header_text, first_data_row, last_context)
EvaluateRule ==
    /\ call.fn = "evaluate_rule"
    /\ ~answer.ended
    /\ answer' = [ended |-> TRUE,
                  ret |-> evaluate_rule(call.arg, fields.header_text,
                                        fields.first_data_row, fields.context)]
    /\ UNCHANGED <<call, fields>>
    /\ UNCHANGED <<tvars, dvars, pvars, uvars>>

NextEval == CheckCondition \/ EvaluateRule

SpecEval == InitEval /\ [][NextEval]_vars

----------------------------------------------------------------------------
(* analyze_column_types called on its own, on cell texts as get_cell_text  *)
(* delivers them (no leading or trailing whitespace)                       *)

TextAlphabet == {"1", "2", "-", "+", ".", "A", ",", "e"}

CellTexts == UNION {[1..n -> TextAlphabet] : n \in 0..MaxTextLen}

TypeColumns ==
    {<<>>} \cup {<<t>> : t \in CellTexts}
           \cup {<<t, u>> : t \in CellTexts, u \in {<<>>, <<"-", "1">>}}

InitTypes ==
    /\ AppIdle
    /\ TableIdle
    /\ NoDocument
    /\ NoPass
    /\ call \in {[fn |-> "analyze_column_types", arg |-> texts] : texts \in TypeColumns}
    /\ fields = [header_text |-> <<>>, first_data_row |-> <<>>, context |-> <<>>]
    /\ answer = [ended |-> FALSE, ret |-> None]

\* analyze_column_types(texts, col_idx)
AnalyzeColumnTypes ==
    /\ call.fn = "analyze_column_types"
    /\ ~answer.ended
    /\ answer' = [ended |-> TRUE, ret |-> analyze_column_types(call.arg)]
    /\ UNCHANGED <<call, fields>>
    /\ UNCHANGED <<tvars, dvars, pvars, uvars>>

NextTypes == AnalyzeColumnTypes

SpecTypes == InitTypes /\ [][NextTypes]_vars

----------------------------------------------------------------------------
(* parse_table_robust (robust_mode = True) called on its own: the grid of   *)
(* cleaned cell texts, the de-duplicated header names, the row dicts        *)

RobustMaxCols == 3

\* grid[r][c] = clean_text(table.cell(r, c).text); a cell that does not
\* exist (IndexError) leaves the '' the grid was filled with
Grid(t, cols) ==
    AsList([r \in 1..Len(t) |->
        AsList([c \in 1..cols |->
            IF c <= Len(t[r]) THEN clean_text(t[r][c]) ELSE <<>>])])

\* one turn of the loop over enumerate(headers); c = i + 1
DedupStep(st, h, c) ==
    LET name == IF h # <<>> THEN h ELSE GenericName(c)
    IN  IF name \in DOMAIN st.seen
        THEN LET count == st.seen[name] + 1
             IN  [seen |-> [n \in DOMAIN st.seen |->
                               IF n = name THEN count ELSE st.seen[n]],
                  final_headers |->
                      Append(st.final_headers, name \o <<".">> \o IntToStr(count))]
        ELSE [seen |-> [n \in DOMAIN st.seen \cup {name} |->
                           IF n = name THEN 0 ELSE st.seen[n]],
              final_headers |-> Append(st.final_headers, name)]

DedupHeaders(headers) ==
    LET F[i \in 0..Len(headers)] ==
            IF i = 0 THEN [seen |-> [n \in {} |-> 0], final_headers |-> <<>>]
            ELSE DedupStep(F[i - 1], headers[i], i)
    IN  F[Len(headers)].final_headers

\* pd.DataFrame(data) for a list of row dicts over the same keys
parse_table_robust(t, cols) ==
    IF Len(t) = 0 \/ cols = 0 THEN EmptyFrame
    ELSE LET grid == Grid(t, cols)
             final_headers == DedupHeaders(grid[1])
         IN  IF Len(t) = 1 THEN EmptyFrame
             ELSE [columns |-> FirstOccurrences(final_headers),
                   rows |-> AsList([r \in 1..(Len(t) - 1) |->
                                ZipDict(final_headers, grid[r + 1])])]

RobustHeaderTexts ==
    {<<>>, <<"A">>, <<"A", " ">>, <<"A", ".", "1">>,
     <<"C", "o", "l", "u", "m", "n", "_", "2">>}

RobustDataTexts == {<<"1">>, <<"2">>}

\* tables as python-docx presents them to the grid loop: every row has one
\* cell per grid column
RobustTables ==
    UNION {{<<h>> : h \in [1..n -> RobustHeaderTexts]}
           \cup {<<h, d>> : h \in [1..n -> RobustHeaderTexts],
                            d \in [1..n -> RobustDataTexts]} :
           n \in 1..RobustMaxCols}

InitRobust ==
    /\ AppIdle
    /\ TableIdle
    /\ NoDocument
    /\ NoPass
    /\ call \in {[fn |-> "parse_table_robust", arg |-> t] : t \in RobustTables}
    /\ fields = [header_text |-> <<>>, first_data_row |-> <<>>, context |-> <<>>]
    /\ answer = [ended |-> FALSE, ret |-> None]

\* parse_table_robust(table)
ParseTableRobust ==
    /\ call.fn = "parse_table_robust"
    /\ ~answer.ended
    /\ answer' = [ended |-> TRUE,
                  ret |-> parse_table_robust(call.arg, Len(call.arg[1]))]
    /\ UNCHANGED <<call, fields>>
    /\ UNCHANGED <<tvars, dvars, pvars, uvars>>

NextRobust == ParseTableRobust

SpecRobust == InitRobust /\ [][NextRobust]_vars

----------------------------------------------------------------------------
(* process_table as a function of the table, of whether a callback is      *)
(* supplied, and of what the callback does when it is consulted            *)

\* lines 164-174: the consensus c, replaced by the callback's value when the
\* callback is consulted
EscalateIfLow(c, hc, out) ==
    IF c.confidence = "low" /\ hc
    THEN Escalate(c.start_row, out)
    ELSE [start_row |-> c.start_row, confidence |-> c.confidence, raised |-> FALSE]

\* what the call gives its caller: an exception, or the pair (df, metadata)
CallResult(e, f) ==
    [raised |-> e.raised \/ f.pc = "raised", df |-> f.ret.df, meta |-> f.ret.meta]

\* lines 176-236, from the resolved start row e
FinishFrom(rows_data, c, e, pandas) ==
    CallResult(e, FinishTableWith(rows_data, c.votes, e.start_row, e.confidence, pandas))

\* lines 164-236, from the consensus c
ResolveFrom(rows_data, c, hc, out, pandas) ==
    FinishFrom(rows_data, c, EscalateIfLow(c, hc, out), pandas)

\* lines 113-236, from the normalized grid
ProcessGrid(rows_data, hc, out, pandas) ==
    ResolveFrom(rows_data, Consensus(rows_data), hc, out, pandas)

\* process_table, with what pandas does when the frame is built
process_table_with(t, hc, out, pandas) ==
    IF t = <<>>
    THEN [raised |-> FALSE, df |-> EmptyFrame, meta |-> NoMeta]
    ELSE ProcessGrid(NormalizeGrid(ExtractGrid(t)), hc, out, pandas)

process_table(t, hc, out) == process_table_with(t, hc, out, PandasOk)

\* the callback is consulted for table t
CallbackConsulted(t, hc) ==
    /\ hc
    /\ t # <<>>
    /\ Consensus(NormalizeGrid(ExtractGrid(t))).confidence = "low"

----------------------------------------------------------------------------
(* extract_all_with_pages: table naming *)

NameMaxLen == 80
TitleMaxLen == 60

TablePrefix == <<"T", "a", "b", "l", "e", "_">>

\* s.startswith(prefix)
StartsWith(s, prefix) ==
    Len(s) >= Len(prefix) /\ SubSeq(s, 1, Len(prefix)) = prefix

\* "_".join(texts)
JoinUnderscore(texts) ==
    LET F[i \in 0..Len(texts)] ==
            IF i = 0 THEN <<>>
            ELSE IF i = 1 THEN texts[1]
            ELSE F[i - 1] \o <<"_">> \o texts[i]
    IN  F[Len(texts)]

\* variant: when the block right after the table gives no name, the paragraph
\* right before the table is tried
detect_table_name_around(bs, table_idx) ==
    LET Candidate(j) ==
            IF j < 0 \/ j >= Len(bs) THEN None
            ELSE IF bs[j + 1].kind = "table" THEN None
            ELSE LET text == Strip(CollapseSpaces(bs[j + 1].text))
                 IN  IF text # <<>> /\ Len(text) < NameMaxLen THEN text ELSE None
    IN  IF Candidate(table_idx + 1) # None THEN Candidate(table_idx + 1)
        ELSE Candidate(table_idx - 1)

\* Priority 1: the block right after the table (table_idx is 0-based).  Every
\* block is a Paragraph or a Table, so the loop ends in its first iteration.
detect_table_name_below(bs, table_idx) ==
    LET j == table_idx + 1
    IN  IF j >= Len(bs) THEN None
        ELSE IF bs[j + 1].kind = "table" THEN None
        ELSE LET text == Strip(CollapseSpaces(bs[j + 1].text))
             IN  IF text # <<>> /\ Len(text) < NameMaxLen THEN text ELSE None

\* Priority 2: the first data row looks like a title
detect_table_name_first_row(df) ==
    IF Len(df.rows) > 0
    THEN LET first_row == df.rows[1]
             non_empty == NonEmptyCells(AsList([k \in 1..Len(first_row) |->
                                                    Strip(first_row[k])]))
             unique == {non_empty[k] : k \in 1..Len(non_empty)}
         IN  IF non_empty # <<>> /\ (Cardinality(unique) = 1 \/ Len(non_empty) = 1)
             THEN SubSeq(non_empty[1], 1,
                         IF Len(non_empty[1]) < TitleMaxLen
                         THEN Len(non_empty[1]) ELSE TitleMaxLen)
             ELSE None
    ELSE None

\* Priority 3: [c for c in df.columns if not c.startswith("Column_")]
NonGeneric(columns) ==
    LET F[i \in 0..Len(columns)] ==
            IF i = 0 THEN <<>>
            ELSE IF StartsWith(columns[i], ColumnPrefix) THEN F[i - 1]
            ELSE F[i - 1] \o <<columns[i]>>
    IN  F[Len(columns)]

HeaderConcatName(df, n) ==
    LET non_generic == NonGeneric(df.columns)
    IN  IF non_generic # <<>> THEN JoinUnderscore(non_generic)
        ELSE TablePrefix \o IntToStr(n)

\* variant: the first-row title is tried before the paragraph below
TableNameTitleFirst(bs, i, df, n) ==
    LET title == detect_table_name_first_row(df)
        below == detect_table_name_below(bs, i)
    IN  IF title # None THEN title
        ELSE IF below # None THEN below
        ELSE HeaderConcatName(df, n)
\* lines 290-298: the priority chain
TableName(bs, i, df, n) ==
    LET below == detect_table_name_below(bs, i)
        title == detect_table_name_first_row(df)
    IN  IF below # None THEN below
        ELSE IF title # None THEN title
        ELSE HeaderConcatName(df, n)

\* line 296: c.startswith("Column_") on the integer labels of a frame built
\* without column names raises AttributeError
HeaderConcatRaises(df) == "positional" \in DOMAIN df /\ Len(df.columns) > 0

\* lines 288-298 raise: priority 3 is reached on such a frame
TableNameRaises(bs, i, df) ==
    /\ detect_table_name_below(bs, i) = None
    /\ detect_table_name_first_row(df) = None
    /\ HeaderConcatRaises(df)

----------------------------------------------------------------------------
(* extract_all_with_pages: blocks, stray text and the returned dict *)

\* a Paragraph: its text, the break markers of its XML in order
\* ("lastRenderedPageBreak" for <w:lastRenderedPageBreak/>, and "page" or
\* "column" for <w:br w:type="page"/> or <w:br w:type="column"/>), its style
\* name (or None) and the bold attribute of each of its runs
PageParagraph(text, brk, style, runs) ==
    [kind |-> "paragraph", text |-> text, rows |-> <<>>,
     brk |-> brk, style |-> style, runs |-> runs]

PageTable(rows) ==
    [kind |-> "table", text |-> <<>>, rows |-> rows,
     brk |-> <<>>, style |-> None, runs |-> <<>>]

\* line 264: '<w:lastRenderedPageBreak' in xml_str or 'w:type="page"' in xml_str
PageMarkers == {"lastRenderedPageBreak", "page"}

SignalsPageBreak(block) ==
    \E k \in 1..Len(block.brk) : block.brk[k] \in PageMarkers

\* variant: the counter advances once for every marker of the paragraph
NextPagePerMarker(page, block) ==
    page + Cardinality({k \in 1..Len(block.brk) : block.brk[k] \in PageMarkers})

\* lines 264-265: the page counter after a paragraph
NextPage(page, block) == IF SignalsPageBreak(block) THEN page + 1 ELSE page

get_paragraph_style_info(paragraph, text) ==
    [text |-> text,
     style |-> IF paragraph.style # None THEN paragraph.style ELSE "",
     bold |-> \E k \in 1..Len(paragraph.runs) : paragraph.runs[k] = "True"]

\* variant: the paragraph is put in front of the page's list
StrayAppendFront(by_page, page, info) ==
    [q \in DOMAIN by_page \cup {page} |->
        IF q = page
        THEN (IF page \in DOMAIN by_page THEN <<info>> \o by_page[page] ELSE <<info>>)
        ELSE by_page[q]]

\* stray_text_by_page[page].append(info), creating the list when needed
StrayAppend(by_page, page, info) ==
    [q \in DOMAIN by_page \cup {page} |->
        IF q = page
        THEN (IF page \in DOMAIN by_page THEN Append(by_page[page], info) ELSE <<info>>)
        ELSE by_page[q]]

\* [{"pageNumber": p, "paragraphs": paras} for p, paras in sorted(items)]
RECURSIVE StrayList(_, _)
StrayList(by_page, pages) ==
    IF pages = {} THEN <<>>
    ELSE LET q == CHOOSE x \in pages : \A y \in pages : x <= y
         IN  <<[pageNumber |-> q, paragraphs |-> by_page[q]]>>
             \o StrayList(by_page, pages \ {q})

LongText == [k \in 1..NameMaxLen |-> "x"]

PageBlockPool ==
    { PageParagraph(<<" ">>, <<>>, None, <<>>),
      PageParagraph(<<"N", " ", " ", "1">>, <<"column">>, "Normal", <<"None", "False">>),
      PageParagraph(LongText, <<>>, "Normal", <<>>),
      PageParagraph(<<"N">>, <<"page", "lastRenderedPageBreak">>, "Title", <<"None", "True">>),
      PageParagraph(<<>>, <<"lastRenderedPageBreak">>, None, <<>>),
      PageTable(<< << <<"A", " ">> >>, << <<"1", "2">> >> >>),
      PageTable(<< << <<"A", " ">>, <<"1", "2">> >>, << <<"1", "2">>, <<"A", " ">> >> >>),
      PageTable(<< << <<>>, <<>> >>, << <<"1", "2">>, <<"A", " ">> >> >>),
      PageTable(<< << <<"A", " ">> >>, << <<"A", " ">> >> >>),
      PageTable(<< << <<>> >> >>) }

PageDocuments == UNION {[1..n -> PageBlockPool] : n \in 0..MaxBlocks}

\* what the callback does when extract_all_with_pages hands it a table
PageCallbackOutcomes ==
    {[kind |-> "int", val |-> v] : v \in {0, 1, 0 - MaxRows - 1}}
    \cup {[kind |-> k, val |-> 0] : k \in {"none", "raise"}}

InitPages ==
    /\ AppIdle
    /\ pc = "idle"
    /\ table = <<>>
    /\ header_callback \in BOOLEAN
    /\ cb = NotCalled
    /\ loc = NoLocals
    /\ ret = [df |-> EmptyFrame, meta |-> NoMeta]
    /\ rules = <<>>
    /\ blocks \in PageDocuments
    /\ pos = 0
    /\ last_context = <<>>
    /\ table_count = 0
    /\ data_store = <<>>
    /\ walk = "walking"
    /\ log = <<>>
    /\ NoPass
    /\ NoCall

\* a Paragraph block (lines 261-279)
PagesParagraph ==
    /\ walk = "walking"
    /\ pos < Len(blocks)
    /\ blocks[pos + 1].kind = "paragraph"
    /\ LET block == blocks[pos + 1]
           page == NextPage(page_number, block)
           text == Strip(CollapseSpaces(block.text))
           next_is_table == pos + 1 < Len(blocks) /\ blocks[pos + 2].kind = "table"
       IN  /\ paragraph_count' = paragraph_count + 1
           /\ page_number' = page
           /\ stray_text_by_page' =
                IF text # <<>> /\ ~next_is_table
                THEN StrayAppend(stray_text_by_page, page,
                                 get_paragraph_style_info(block, text))
                ELSE stray_text_by_page
    /\ pos' = pos + 1
    /\ UNCHANGED <<results, extracted>>
    /\ UNCHANGED <<rules, blocks, last_context, table_count, data_store, walk, log>>
    /\ UNCHANGED tvars
    /\ UNCHANGED evars
    /\ UNCHANGED uvars

\* lines 300-302: the metadata of process_table with the page, the name
\* and the index of the table
PageMetadata(meta, table_name, n) ==
    [start_row |-> meta.start_row,
     confidence |-> meta.confidence,
     page_number |-> page_number,
     table_name |-> table_name,
     table_index |-> n]

\* lines 282-310, with r what process_table did for the block
RecordTable(r) ==
    /\ table_count' = table_count + 1
    /\ IF r.raised \/ (~DfEmpty(r.df) /\ TableNameRaises(blocks, pos, r.df))
       THEN /\ walk' = "raised"   \* the exception leaves the pass
            /\ UNCHANGED <<pos, results>>
       ELSE /\ walk' = walk
            /\ pos' = pos + 1
            /\ results' =
                 IF DfEmpty(r.df) THEN results
                 ELSE Append(results,
                        [df |-> r.df,
                         meta |-> PageMetadata(r.meta,
                                     TableName(blocks, pos, r.df, table_count + 1),
                                     table_count + 1)])

\* a Table block (lines 281-310)
PagesTable ==
    /\ walk = "walking"
    /\ pos < Len(blocks)
    /\ blocks[pos + 1].kind = "table"
    /\ \E out \in IF CallbackConsulted(blocks[pos + 1].rows, header_callback)
                   THEN PageCallbackOutcomes ELSE {NotCalled} :
          RecordTable(process_table(blocks[pos + 1].rows, header_callback, out))
    /\ UNCHANGED <<page_number, paragraph_count, stray_text_by_page, extracted>>
    /\ UNCHANGED <<rules, blocks, last_context, data_store, log>>
    /\ UNCHANGED tvars
    /\ UNCHANGED evars
    /\ UNCHANGED uvars

\* the loop is over: build and return the dict (lines 312-328)
PagesReturn ==
    /\ walk = "walking"
    /\ pos = Len(blocks)
    /\ walk' = "done"
    /\ extracted' = [tables |-> results,
                     stray_text |-> StrayList(stray_text_by_page,
                                              DOMAIN stray_text_by_page),
                     total_pages |-> page_number]
    /\ UNCHANGED <<page_number, paragraph_count, results, stray_text_by_page>>
    /\ UNCHANGED <<rules, blocks, pos, last_context, table_count, data_store, log>>
    /\ UNCHANGED tvars
    /\ UNCHANGED evars
    /\ UNCHANGED uvars

NextPages == PagesParagraph \/ PagesTable \/ PagesReturn

SpecPages == InitPages /\ [][NextPages]_vars

----------------------------------------------------------------------------
(* extract_all and extract_all_with_pages when pandas may fail to build a  *)
(* frame: call.fn is the method called, log the frames process_table gave  *)

FrameBlockPool ==
    { PageParagraph(<<"N", " ", " ", "1">>, <<"column">>, "Normal", <<"None", "False">>),
      PageTable(<< << <<"A", " ">>, <<"1", "2">> >>, << <<"1", "2">>, <<"A", " ">> >> >>),
      PageTable(<< << <<"A", " ">> >>, << <<"1", "2">> >> >>),
      PageTable(<< << <<>> >> >>) }

FrameDocuments == UNION {[1..n -> FrameBlockPool] : n \in 0..MaxBlocks}

\* a callback that answers with a row of the grid, or with None
FrameCallbackOutcomes == {[kind |-> "int", val |-> 0], [kind |-> "none", val |-> 0]}

InitFrames ==
    /\ AppIdle
    /\ pc = "idle"
    /\ table = <<>>
    /\ header_callback \in BOOLEAN
    /\ cb = NotCalled
    /\ loc = NoLocals
    /\ ret = [df |-> EmptyFrame, meta |-> NoMeta]
    /\ rules = <<>>
    /\ blocks \in FrameDocuments
    /\ pos = 0
    /\ last_context = <<>>
    /\ table_count = 0
    /\ data_store = <<>>
    /\ walk = "walking"
    /\ log = <<>>
    /\ NoPass
    /\ call \in {[fn |-> f, arg |-> <<>>] : f \in {"extract_all", "extract_all_with_pages"}}
    /\ fields = [header_text |-> <<>>, first_data_row |-> <<>>, context |-> <<>>]
    /\ answer = [ended |-> FALSE, ret |-> None]

\* the frame process_table returned for the table, and what pandas did
LogFrame(r, pandas) ==
    log' = Append(log, [table_no |-> table_count + 1, pandas |-> pandas, df |-> r.df])

\* extract_all, lines 30-37, with r what process_table did for the block
KeepTable(r) ==
    /\ table_count' = table_count + 1
    /\ IF r.raised
       THEN /\ walk' = "raised"   \* the exception leaves extract_all
            /\ UNCHANGED <<pos, results>>
       ELSE /\ walk' = walk
            /\ pos' = pos + 1
            /\ results' = IF DfEmpty(r.df) THEN results
                          ELSE Append(results, [df |-> r.df, meta |-> r.meta])

\* extract_all: a block that is not a Table is passed over (line 29)
AllParagraph ==
    /\ call.fn = "extract_all"
    /\ walk = "walking"
    /\ pos < Len(blocks)
    /\ blocks[pos + 1].kind = "paragraph"
    /\ pos' = pos + 1
    /\ UNCHANGED <<rules, blocks, last_context, table_count, data_store, walk, log>>
    /\ UNCHANGED <<tvars, pvars, evars, uvars>>

\* extract_all: a Table block (lines 29-37)
AllTable ==
    /\ call.fn = "extract_all"
    /\ walk = "walking"
    /\ pos < Len(blocks)
    /\ blocks[pos + 1].kind = "table"
    /\ \E pandas \in PandasOutcomes :
       \E out \in IF CallbackConsulted(blocks[pos + 1].rows, header_callback)
                   THEN FrameCallbackOutcomes ELSE {NotCalled} :
          /\ KeepTable(process_table_with(blocks[pos + 1].rows, header_callback, out, pandas))
          /\ LogFrame(process_table_with(blocks[pos + 1].rows, header_callback, out, pandas),
                      pandas)
    /\ UNCHANGED <<page_number, paragraph_count, stray_text_by_page, extracted>>
    /\ UNCHANGED <<rules, blocks, last_context, data_store>>
    /\ UNCHANGED <<tvars, evars, uvars>>

\* extract_all: return results (line 40)
AllReturn ==
    /\ call.fn = "extract_all"
    /\ walk = "walking"
    /\ pos = Len(blocks)
    /\ walk' = "done"
    /\ extracted' = [tables |-> results]
    /\ UNCHANGED <<page_number, paragraph_count, results, stray_text_by_page>>
    /\ UNCHANGED <<rules, blocks, pos, last_context, table_count, data_store, log>>
    /\ UNCHANGED <<tvars, evars, uvars>>

FramesParagraph == call.fn = "extract_all_with_pages" /\ PagesParagraph

\* extract_all_with_pages: a Table block (lines 281-310)
FramesTable ==
    /\ call.fn = "extract_all_with_pages"
    /\ walk = "walking"
    /\ pos < Len(blocks)
    /\ blocks[pos + 1].kind = "table"
    /\ \E pandas \in PandasOutcomes :
       \E out \in IF CallbackConsulted(blocks[pos + 1].rows, header_callback)
                   THEN FrameCallbackOutcomes ELSE {NotCalled} :
          /\ RecordTable(process_table_with(blocks[pos + 1].rows, header_callback, out, pandas))
          /\ LogFrame(process_table_with(blocks[pos + 1].rows, header_callback, out, pandas),
                      pandas)
    /\ UNCHANGED <<page_number, paragraph_count, stray_text_by_page, extracted>>
    /\ UNCHANGED <<rules, blocks, last_context, data_store>>
    /\ UNCHANGED <<tvars, evars, uvars>>

FramesReturn == call.fn = "extract_all_with_pages" /\ PagesReturn

NextFrames ==
    \/ AllParagraph \/ AllTable \/ AllReturn
    \/ FramesParagraph \/ FramesTable \/ FramesReturn

SpecFrames == InitFrames /\ [][NextFrames]_vars

----------------------------------------------------------------------------
(* word_table_ui.py: the Extract button, the worker thread it starts, and   *)
(* the Tk event loop that runs the callbacks handed to self.after           *)

MaxExtractions == 2

MaxTables == 2

Modes == {"Standard", "Smart", "Both"}

\* self.file_path.get(): nothing chosen, a path that does not exist, a document
FilePaths == {"", "missing", "document"}

\* result = {} and result['val'] = res; res is None when the dialog is
\* cancelled, else the integer entered
EmptyResult == [k \in {} |-> 0]

DialogAnswers ==
    {[kind |-> "none", val |-> 0], [kind |-> "int", val |-> 0], [kind |-> "int", val |-> 1]}

\* self.after(0, callback)
After(queue, callback) == Append(queue, callback)

FinishCallback(status) ==
    [fn |-> "finish_extraction", status |-> status, thread |-> 0]

ShowDialogCallback(w) ==
    [fn |-> "show_dialog", status |-> "", thread |-> w]

\* threading.Thread(target=self.run_extraction, args=(docx, out, mode)) for
\* a document with n tables
NewThread(mode, n) ==
    [pc |-> IF mode \in {"Standard", "Both"} THEN "standard" ELSE "smart",
     mode |-> mode, left |-> n, event |-> FALSE, result |-> EmptyResult,
     status |-> "running"]

\* the end of the try block: the success message is scheduled
TryCompleted(queue) == After(queue, FinishCallback("success"))

ExceptHandlerSilent(queue) == queue

\* except Exception: the error message is scheduled
ExceptHandler(queue) == After(queue, FinishCallback("error"))

\* run_extraction leaves thread w with the given status
Ended(w, status) ==
    /\ threads' = [threads EXCEPT ![w].pc = "done", ![w].status = status]
    /\ after_queue' = IF status = "success" THEN TryCompleted(after_queue)
                      ELSE ExceptHandler(after_queue)

InitApp == TableIdle /\ NoDocument /\ NoPass /\ NoCall /\ AppIdle

\* a click on btn_extract: a disabled ttk.Button does not invoke its command
StartExtraction ==
    /\ btn_extract = "normal"
    /\ Len(threads) < MaxExtractions
    /\ \E docx \in FilePaths, mode \in Modes, n \in 0..MaxTables :
          IF docx # "document"
          THEN UNCHANGED uvars
          ELSE /\ btn_extract' = "disabled"
               /\ threads' = Append(threads, NewThread(mode, n))
               /\ UNCHANGED <<after_queue, dialog, finish_calls>>
    /\ UNCHANGED <<tvars, dvars, pvars, evars>>

\* run_extraction, standard mode: parse_docx and save_data return or raise
RunStandard ==
    /\ \E w \in 1..Len(threads) :
          /\ threads[w].pc = "standard"
          /\ \E outcome \in {"ok", "raise"} :
                IF outcome = "raise" THEN Ended(w, "error")
                ELSE IF threads[w].mode = "Both"
                THEN /\ threads' = [threads EXCEPT ![w].pc = "smart"]
                     /\ UNCHANGED after_queue
                ELSE Ended(w, "success")
    /\ UNCHANGED <<btn_extract, dialog, finish_calls>>
    /\ UNCHANGED <<tvars, dvars, pvars, evars>>

\* run_extraction, smart mode: extract_all reaches the next table, which is
\* processed without the callback, or calls header_selection_callback (up to
\* event.wait()), or raises
RunSmartTable ==
    /\ \E w \in 1..Len(threads) :
          /\ threads[w].pc = "smart"
          /\ threads[w].left > 0
          /\ \E step \in {"confident", "callback", "raise"} :
                CASE step = "raise" -> Ended(w, "error")
                  [] step = "confident" ->
                        /\ threads' = [threads EXCEPT ![w].left = @ - 1]
                        /\ UNCHANGED after_queue
                  [] step = "callback" ->
                        /\ threads' = [threads EXCEPT ![w].pc = "waiting",
                                                      ![w].event = FALSE,
                                                      ![w].result = EmptyResult]
                        /\ after_queue' = After(after_queue, ShowDialogCallback(w))
    /\ UNCHANGED <<btn_extract, dialog, finish_calls>>
    /\ UNCHANGED <<tvars, dvars, pvars, evars>>

\* header_selection_callback after event.wait(): return result.get('val')
CallbackReturn ==
    /\ \E w \in 1..Len(threads) :
          /\ threads[w].pc = "waiting"
          /\ threads[w].event
          /\ threads' = [threads EXCEPT ![w].pc = "smart", ![w].left = @ - 1]
    /\ UNCHANGED <<btn_extract, after_queue, dialog, finish_calls>>
    /\ UNCHANGED <<tvars, dvars, pvars, evars>>

\* run_extraction, smart mode after extract_all: the frames are written, or
\* os.makedirs or to_csv raises
SaveSmart ==
    /\ \E w \in 1..Len(threads) :
          /\ threads[w].pc = "smart"
          /\ threads[w].left = 0
          /\ \E outcome \in {"ok", "raise"} :
                Ended(w, IF outcome = "ok" THEN "success" ELSE "error")
    /\ UNCHANGED <<btn_extract, dialog, finish_calls>>
    /\ UNCHANGED <<tvars, dvars, pvars, evars>>

\* the event loop runs show_dialog: simpledialog.askinteger opens the dialog
ShowDialog ==
    /\ after_queue # <<>>
    /\ Head(after_queue).fn = "show_dialog"
    /\ dialog = 0
    /\ dialog' = Head(after_queue).thread
    /\ after_queue' = Tail(after_queue)
    /\ UNCHANGED <<btn_extract, threads, finish_calls>>
    /\ UNCHANGED <<tvars, dvars, pvars, evars>>

\* the dialog is answered or cancelled: result['val'] = res; event.set()
AnswerDialog ==
    /\ dialog # 0
    /\ \E res \in DialogAnswers :
          threads' = [threads EXCEPT ![dialog].result = [val |-> res],
                                     ![dialog].event = TRUE]
    /\ dialog' = 0
    /\ UNCHANGED <<btn_extract, after_queue, finish_calls>>
    /\ UNCHANGED <<tvars, dvars, pvars, evars>>

\* the event loop runs finish_extraction(message, status)
FinishExtraction ==
    /\ after_queue # <<>>
    /\ Head(after_queue).fn = "finish_extraction"
    /\ btn_extract' = "normal"
    /\ finish_calls' = finish_calls + 1
    /\ after_queue' = Tail(after_queue)
    /\ UNCHANGED <<threads, dialog>>
    /\ UNCHANGED <<tvars, dvars, pvars, evars>>

NextApp ==
    \/ StartExtraction
    \/ RunStandard \/ RunSmartTable \/ CallbackReturn \/ SaveSmart
    \/ ShowDialog \/ AnswerDialog \/ FinishExtraction

SpecApp == InitApp /\ [][NextApp]_vars

\* a started thread keeps running, the Tk main loop keeps running the
\* callbacks it was handed, and every dialog opened is eventually answered
SpecAppFair ==
    /\ SpecApp
    /\ WF_vars(RunStandard) /\ WF_vars(RunSmartTable)
    /\ WF_vars(CallbackReturn) /\ WF_vars(SaveSmart)
    /\ WF_vars(ShowDialog) /\ WF_vars(FinishExtraction)
    /\ WF_vars(AnswerDialog)

----------------------------------------------------------------------------
(* Properties of process_table *)

NumRows == Len(loc.rows_data)

\* process_table has built a grid for a table with at least one row
GridBuilt == pc # "idle" /\ table # <<>>

Row(i) == loc.rows_data[i + 1]

Fallback == IF NumRows > 1 THEN 1 ELSE 0

\* C1: after grid normalisation every row of the grid has the same length,
\* the maximum cell count among the table's original rows; each row keeps
\* its own cleaned cells and is padded with empty text.
C1_GridRectangular ==
    GridBuilt =>
        LET w == Max({Len(table[i]) : i \in 1..Len(table)})
        IN  /\ Len(loc.rows_data) = Len(table)
            /\ \A i \in 1..Len(table) :
                /\ Len(loc.rows_data[i]) = w
                /\ \A j \in 1..w :
                    loc.rows_data[i][j] =
                        IF j <= Len(table[i]) THEN get_cell_text(table[i][j]) ELSE <<>>

\* a table whose rows differ in width has been processed
C1_Witness ==
    /\ pc = "returned"
    /\ \E i, j \in 1..Len(table) : 1 < j /\ Len(table[1]) < Len(table[j])

\* C2: the start row that splits header rows from data rows and that is
\* reported in the metadata satisfies 0 <= startRow <= numRows, whatever
\* the callback returns.
C2_StartRowInRange ==
    (pc = "returned" /\ table # <<>>) =>
        /\ 0 <= ret.meta.start_row
        /\ ret.meta.start_row <= NumRows

\* the result process_table gives for the table when no callback is supplied
NoCallbackResult(t) ==
    LET rows_data == NormalizeGrid(ExtractGrid(t))
        c == Consensus(rows_data)
    IN  FinishTable(rows_data, c.votes, c.start_row, c.confidence)

\* C6: if the callback raises, process_table does not raise and returns
\* what it returns with no callback: the engine's fallback start row
\* (before empty-row adjustment) and confidence low.
C6_CallbackFailureSwallowed ==
    (pc \in {"returned", "raised"} /\ cb.kind = "raise") =>
        /\ pc = "returned"
        /\ loc.resolved = Fallback
        /\ ret.meta.confidence = "low"
        /\ ret = NoCallbackResult(table).ret

\* the callback raised for a low-confidence table
C6_Witness ==
    /\ pc = "returned"
    /\ cb.kind = "raise"
    /\ NumRows > 1

\* C7: the callback's value replaces startRow, with confidence
\* user-defined, iff it is an integer within [0, numRows-1]; for any other
\* value the engine keeps its own start row and confidence stays low.
C7_OnlyValidCallbackValueUsed ==
    (pc \in {"returned", "raised"} /\ cb.kind # "notcalled") =>
        IF cb.kind = "int" /\ 0 <= cb.val /\ cb.val <= NumRows - 1
        THEN loc.resolved = cb.val /\ loc.confidence = "user-defined"
        ELSE loc.resolved = Fallback /\ loc.confidence = "low"

\* C8: a resolved start row that points at an entirely empty grid row is
\* advanced to the next row with a non-empty cell (numRows if none), only
\* entirely empty rows are skipped, and a start row pointing at a
\* non-empty row is unchanged.
C8_EmptyRowAdjustment ==
    (pc = "returned" /\ table # <<>>
        /\ 0 <= loc.resolved /\ loc.resolved < NumRows) =>
        LET r == loc.resolved
            f == ret.meta.start_row
            blank(i) == \A c \in 1..Len(Row(i)) : Row(i)[c] = <<>>
        IN  /\ r <= f /\ f <= NumRows
            /\ \A k \in r..(f - 1) : blank(k)
            /\ f < NumRows => ~blank(f)

\* two empty rows were skipped and a non-empty row was reached
C8_Witness ==
    /\ pc = "returned"
    /\ table # <<>>
    /\ 0 <= loc.resolved
    /\ ret.meta.start_row >= loc.resolved + 2
    /\ ret.meta.start_row < NumRows

\* one column holds text in rows 0 and 1 and int/float in every later row
\* (at least two such rows), and no other column casts a vote
C9_Case ==
    /\ GridBuilt
    /\ NumRows >= 4
    /\ \E c \in 1..Len(loc.rows_data[1]) :
        LET types == analyze_column_types(ColTexts(loc.rows_data, c))
        IN  /\ types[1] = "text"
            /\ types[2] = "text"
            /\ \A i \in 3..NumRows : types[i] \in {"int", "float"}
            /\ \A d \in 1..Len(loc.rows_data[1]) :
                d # c => ColumnVotes(loc.rows_data, d) = <<>>

\* C9: in that case process_table returns startRow = 2, confidence high.
C9_TextThenNumeric ==
    C9_Case =>
        /\ pc = "returned"
        /\ ret.meta.start_row = 2
        /\ ret.meta.confidence = "high"

\* the case where the column's pattern vote (row 1) ties its datatype vote
C9_Witness ==
    /\ C9_Case
    /\ pc = "returned"
    /\ loc.votes = <<2, 1>>

\* C10: the 4x4 grid with header row ["ID", "", "Value", ""] is processed,
\* with no callback, to columns ["ID","Column_2","Value","Column_4"],
\* startRow = 1, confidence high and its 3 data rows in order.
C10_PartialColumnNames ==
    (pc # "idle" /\ table = PartialNamesTable /\ ~header_callback) =>
        /\ pc = "returned"
        /\ ret.df.columns =
              << <<"I", "D">>,
                 <<"C", "o", "l", "u", "m", "n", "_", "2">>,
                 <<"V", "a", "l", "u", "e">>,
                 <<"C", "o", "l", "u", "m", "n", "_", "4">> >>
        /\ ret.meta.start_row = 1
        /\ ret.meta.confidence = "high"
        /\ ret.df.rows =
              << << <<"1">>, <<"A">>, <<"1", "0", "0">>, <<"X">> >>,
                 << <<"2">>, <<"B">>, <<"2", "0", "0">>, <<"Y">> >>,
                 << <<"3">>, <<"C">>, <<"3", "0", "0">>, <<"Z">> >> >>

\* the 4x4 grid has been processed with no callback
C10_Witness ==
    /\ pc = "returned"
    /\ table = PartialNamesTable
    /\ ~header_callback
    /\ Len(ret.df.rows) = 3

\* the non-empty cells of column c (1-based) in grid rows lo..hi-1 (0-based),
\* joined by single spaces
RECURSIVE JoinedColumn(_, _, _)
JoinedColumn(c, lo, hi) ==
    IF lo >= hi THEN <<>>
    ELSE LET head == Row(lo)[c]
             rest == JoinedColumn(c, lo + 1, hi)
         IN  IF head = <<>> THEN rest
             ELSE IF rest = <<>> THEN head
             ELSE head \o <<" ">> \o rest

\* the distinct non-empty values of grid row 0, and how many cells hold one
Row0Values == {Row(0)[c] : c \in 1..Len(Row(0))} \ {<<>>}
Row0Filled == Cardinality({c \in 1..Len(Row(0)) : Row(0)[c] # <<>>})

\* header rows exist and process_table has returned
HeadersBuilt == pc = "returned" /\ table # <<>> /\ ret.meta.start_row >= 1

\* C11: when grid row 0 is a header row with exactly one non-empty cell, or
\* with non-empty cells that all carry one value, it is a title and the
\* column names are built from the later header rows only; a row 0 with two
\* or more distinct non-empty values takes part in the column names.
C11_TitleRowExcluded ==
    HeadersBuilt =>
        LET hi == IF ret.meta.start_row > NumRows THEN NumRows ELSE ret.meta.start_row
            title == Row0Filled = 1 \/ Cardinality(Row0Values) = 1
            lo == IF title THEN 1 ELSE 0
        IN  /\ Len(ret.df.columns) = Len(Row(0))
            /\ \A c \in 1..Len(Row(0)) :
                  ret.df.columns[c] =
                      IF JoinedColumn(c, lo, hi) = <<>>
                      THEN <<"C", "o", "l", "u", "m", "n", "_">> \o IntToStr(c)
                      ELSE JoinedColumn(c, lo, hi)

\* a title row whose two cells carry the same value, followed by a header
\* row that names a column
C11_Witness ==
    /\ HeadersBuilt
    /\ ret.meta.start_row = 2
    /\ Row0Filled = 2
    /\ Cardinality(Row0Values) = 1
    /\ Row(1)[1] # <<>>
    /\ ret.df.columns[1] = Row(1)[1]

\* the number of grid rows before start row s: none before row 0 or
\* before a row that does not exist, all of them when s is past the grid
RowsBefore(s) == IF s < 0 THEN 0 ELSE IF s > NumRows THEN NumRows ELSE s

\* C25: every column is named by the non-empty texts of its cells in the
\* header rows (the grid rows before the final start row, without a title
\* row 0), joined by single spaces from top to bottom, or Column_<c+1>
\* (1-based) when that is empty; there are as many names as grid columns.
C25_ColumnNames ==
    (pc = "returned" /\ table # <<>>) =>
        LET hi == RowsBefore(ret.meta.start_row)
            title == hi >= 1 /\ (Row0Filled = 1 \/ Cardinality(Row0Values) = 1)
            lo == IF title THEN 1 ELSE 0
        IN  /\ Len(ret.df.columns) = Len(Row(0))
            /\ \A c \in 1..Len(Row(0)) :
                  ret.df.columns[c] =
                      IF JoinedColumn(c, lo, hi) = <<>>
                      THEN <<"C", "o", "l", "u", "m", "n", "_">> \o IntToStr(c)
                      ELSE JoinedColumn(c, lo, hi)

\* the votes in the order they are cast: columns left to right, a
\* column's datatype vote before its pattern vote
RECURSIVE VotesInOrder(_)
VotesInOrder(c) ==
    IF c = 0 THEN <<>>
    ELSE LET texts == [i \in 1..NumRows |-> Row(i - 1)[c]]
         IN  VotesInOrder(c - 1) \o DatatypeVote(analyze_column_types(texts))
                                \o PatternVote(texts)

VoteCount(v) == Cardinality({k \in 1..Len(loc.votes) : loc.votes[k] = v})

\* C14: when at least one vote is cast, the consensus start row is the
\* index with the most votes; among indices tied for the most votes it is
\* the one whose first vote was cast earliest; confidence is high.
C14_ConsensusMostVotedFirstCast ==
    (GridBuilt /\ loc.votes # <<>>) =>
        /\ loc.votes = VotesInOrder(Len(Row(0)))
        /\ loc.confidence = "high"
        /\ \E k \in 1..Len(loc.votes) :
            /\ loc.votes[k] = loc.resolved
            /\ \A j \in 1..Len(loc.votes) : VoteCount(loc.votes[j]) <= VoteCount(loc.resolved)
            /\ \A j \in 1..(k - 1) : VoteCount(loc.votes[j]) < VoteCount(loc.resolved)

\* two indices tie for the most votes and the later-cast one is smaller
C14_Witness ==
    /\ GridBuilt
    /\ pc = "returned"
    /\ Len(loc.votes) >= 2
    /\ \E j \in 2..Len(loc.votes) :
        /\ loc.votes[j] < loc.votes[1]
        /\ VoteCount(loc.votes[j]) = VoteCount(loc.votes[1])
    /\ loc.resolved = loc.votes[1]

\* the callback has not replaced the engine's own start row
EngineValueKept == cb.kind \in {"notcalled", "none", "other", "raise"}

\* C15: when no column casts a vote, the start row resolves to 1 for a grid
\* of more than one row and to 0 for a grid of one row, with confidence
\* low; confidence is high exactly when at least one vote was cast.
C15_FallbackWithoutVotes ==
    GridBuilt =>
        /\ (loc.votes = <<>> /\ EngineValueKept) =>
                /\ loc.resolved = (IF Len(table) > 1 THEN 1 ELSE 0)
                /\ loc.confidence = "low"
        /\ loc.confidence = "high" <=> loc.votes # <<>>
        /\ pc = "returned" => (ret.meta.confidence = "high" <=> loc.votes # <<>>)

\* a one-row table without votes resolved to row 0 with confidence low
C15_Witness ==
    /\ pc = "returned"
    /\ Len(table) = 1
    /\ loc.votes = <<>>
    /\ loc.resolved = 0
    /\ ret.meta.confidence = "low"
    /\ Len(ret.df.rows) = 1

\* the texts of grid column c (1-based), top to bottom, 0-based row index
Column(c) == [i \in 0..(NumRows - 1) |-> Row(i)[c]]

FilledRows(c) == {i \in 0..(NumRows - 1) : Column(c)[i] # <<>>}

\* the lengths that more than 70% of the non-empty cells of column c have
ConsistentLengths(c) ==
    {m \in {Len(Column(c)[i]) : i \in FilledRows(c)} :
        Cardinality({i \in FilledRows(c) : Len(Column(c)[i]) = m}) * 10
            > 7 * Cardinality(FilledRows(c))}

\* C16: a column with consistency above 0.7 casts a pattern vote for the
\* first row strictly after row 0 whose cell has the modal length, whenever
\* there is such a row, also when the cell of row 0 has the modal length;
\* any other column casts no pattern vote.
C16_PatternVote ==
    GridBuilt =>
        \A c \in 1..Len(Row(0)) :
            LET later == {i \in 1..(NumRows - 1) :
                            Len(Column(c)[i]) \in ConsistentLengths(c)}
            IN  loc.signals[c].pattern =
                    IF later = {} THEN <<>>
                    ELSE <<CHOOSE i \in later : \A j \in later : i <= j>>

Numeric(c, i) == CellType(Column(c)[i]) \in {"int", "float"}

\* the rows where a run of two or more int/float cells of column c begins
RunStarts(c) ==
    {i \in 0..(NumRows - 2) :
        /\ Numeric(c, i) /\ Numeric(c, i + 1)
        /\ (i = 0 \/ ~Numeric(c, i - 1))}

\* C17: a column casts at most one datatype vote: the start of its first
\* run of two or more consecutive int/float cells or, when it has no such
\* run, the last row if the last cell is int/float; otherwise none.
C17_DatatypeVote ==
    GridBuilt =>
        \A c \in 1..Len(Row(0)) :
            loc.signals[c].datatype =
                IF RunStarts(c) # {}
                THEN <<CHOOSE i \in RunStarts(c) : \A j \in RunStarts(c) : i <= j>>
                ELSE IF Numeric(c, NumRows - 1) THEN <<NumRows - 1>>
                ELSE <<>>

\* a lone number was reset by a text cell before the run that votes, and
\* in another table the last cell alone votes
C17_Witness ==
    /\ pc = "returned"
    /\ NumRows = 4
    /\ Numeric(1, 0) /\ ~Numeric(1, 1) /\ Numeric(1, 2) /\ Numeric(1, 3)
    /\ loc.signals[1].datatype = <<2>>

\* vote v indexes, in some column, an int/float cell or a non-empty cell of
\* the column's modal length
VoteOnFilledCell(v) ==
    \E c \in 1..Len(Row(0)) :
        \/ Numeric(c, v)
        \/ Column(c)[v] # <<>> /\ Len(Column(c)[v]) \in ConsistentLengths(c)

\* C27: when confidence is high, every vote indexes a filled cell of a grid
\* row, so the consensus start row is below numRows and its row is not
\* empty; the empty-row adjustment leaves it as it is, the callback is not
\* invoked, and the data table has at least one row.
C27_HighConfidenceRowUsable ==
    (GridBuilt /\ loc.confidence = "high") =>
        /\ \A k \in 1..Len(loc.votes) :
              loc.votes[k] \in 0..(NumRows - 1) /\ VoteOnFilledCell(loc.votes[k])
        /\ loc.resolved \in 0..(NumRows - 1)
        /\ \E c \in 1..Len(Row(0)) : Row(loc.resolved)[c] # <<>>
        /\ cb = NotCalled
        /\ pc = "returned"
        /\ loc.start_row = loc.resolved
        /\ ret.meta.start_row = loc.resolved
        /\ ret.meta.confidence = "high"
        /\ Len(ret.df.rows) >= 1

\* high confidence with a callback at hand, a consensus past an empty row 1
C27_Witness ==
    /\ pc = "returned"
    /\ header_callback
    /\ ret.meta.confidence = "high"
    /\ NumRows >= 3
    /\ \A c \in 1..Len(Row(0)) : Row(1)[c] = <<>>
    /\ ret.meta.start_row = 2

----------------------------------------------------------------------------
(* Properties of parse_docx *)

\* every top-level condition of rule k evaluates true for the table of
\* log entry e
TopLevelMatch(k, e) ==
    AllConditions(Get(rules[k], "conditions", <<>>),
                  e.header_text, e.first_data_row, e.context) = "true"

\* the frames stored for table number n, as <<target, index>> pairs
StoredAs(n) ==
    {<<tg, i>> \in (DOMAIN data_store) \X (1..MaxBlocks) :
        i <= Len(data_store[tg]) /\ data_store[tg][i].table_no = n}

\* C3: when two rules both match a table T, T is appended to the data
\* store exactly once, under the target (with the context action and extra
\* columns) of the first of them in list order, and no rule after that
\* first matching rule is evaluated for T.
C3_FirstMatchWins ==
    \A n \in 1..Len(log) :
        LET e == log[n]
            M == {k \in 1..Len(rules) : TopLevelMatch(k, e)}
        IN  Cardinality(M) >= 2 =>
                LET f == CHOOSE k \in M : \A m \in M : k <= m
                    t == blocks[CHOOSE b \in 1..Len(blocks) :
                                /\ blocks[b].kind = "table"
                                /\ Cardinality({c \in 1..b : blocks[c].kind = "table"})
                                     = e.table_no].rows
                IN  /\ e.evaluated = f
                    /\ Cardinality(StoredAs(e.table_no)) = 1
                    /\ \A st \in StoredAs(e.table_no) :
                        /\ st[1] = evaluate_rule(rules[f], e.header_text,
                                        e.first_data_row, e.context).target
                        /\ data_store[st[1]][st[2]].df =
                              ClassifiedFrame(t, rules[f],
                                  Get(rules[f], "extra_cols", <<>>), e.context)

\* rule k matches the table of entry e at top level but resolves no target:
\* it defines subrules, none matches, and its own target is VARIOUS
Unresolved(k, e) ==
    /\ TopLevelMatch(k, e)
    /\ "subrules" \in DOMAIN rules[k]
    /\ FirstSubrule(rules[k].subrules, e.header_text, e.first_data_row,
                    e.context).kind = "nomatch"
    /\ Get(rules[k], "target", None) = "VARIOUS"

\* C4: when the scan reaches a rule whose top-level conditions hold but
\* which resolves no target, the table is left unclassified: the scan
\* stops at that rule and the table is stored under no later rule's target.
C4_UnresolvedRuleStopsScan ==
    \A n \in 1..Len(log) :
        \A k \in 1..Len(rules) :
            (Unresolved(k, log[n]) /\ log[n].evaluated >= k) =>
                /\ log[n].evaluated = k
                /\ log[n].hit = 0
                /\ StoredAs(log[n].table_no) = {}

\* C5: a failure while handling one table block never aborts the document
\* pass: parse_docx goes on with the next block and returns normally.
C5_TableFailureDoesNotAbort ==
    /\ walk # "raised"
    /\ walk = "done" => pos = Len(blocks)

\* the position in the document of the n-th table block
NthTable(n) ==
    CHOOSE b \in 1..Len(blocks) :
        /\ blocks[b].kind = "table"
        /\ Cardinality({c \in 1..b : blocks[c].kind = "table"}) = n

\* the paragraph blocks before position b whose cleaned text is not empty
TextParagraphsBefore(b) ==
    {q \in 1..(b - 1) : blocks[q].kind = "paragraph" /\ clean_text(blocks[q].text) # <<>>}

----------------------------------------------------------------------------
(* Properties of extract_all_with_pages *)

\* the 0-based position in the document of the n-th table block
TableBlockIndex(n) ==
    (CHOOSE b \in 1..Len(blocks) :
        /\ blocks[b].kind = "table"
        /\ Cardinality({c \in 1..b : blocks[c].kind = "table"}) = n) - 1

\* the block right after the n-th table block is a paragraph
ParagraphFollows(n) ==
    /\ TableBlockIndex(n) + 1 < Len(blocks)
    /\ blocks[TableBlockIndex(n) + 2].kind = "paragraph"

\* the text of that paragraph as the extractor reads it: whitespace runs
\* collapsed to one space, both ends trimmed
TextBelow(n) == Strip(CollapseSpaces(blocks[TableBlockIndex(n) + 2].text))

\* C12 as stated: whenever a table with a non-empty result is immediately
\* followed by a paragraph whose text is shorter than 80 characters, the
\* table's name is that paragraph's text.
C12_ShortParagraphBelowNames ==
    \A k \in 1..Len(results) :
        LET n == results[k].meta.table_index
        IN  (ParagraphFollows(n) /\ Len(TextBelow(n)) < 80) =>
                results[k].meta.table_name = TextBelow(n)

\* C12 amended: whenever a table with a non-empty result is immediately
\* followed by a paragraph whose text is non-empty and shorter than 80
\* characters, the table's name is that text, whether or not a first-row
\* title or a column-derived name is available.
C12_NonEmptyShortParagraphBelowNames ==
    \A k \in 1..Len(results) :
        LET n == results[k].meta.table_index
        IN  (ParagraphFollows(n) /\ TextBelow(n) # <<>> /\ Len(TextBelow(n)) < 80) =>
                results[k].meta.table_name = TextBelow(n)

\* a table whose first data row is a title got the paragraph below as name
C12_Witness ==
    \E k \in 1..Len(results) :
        LET n == results[k].meta.table_index
        IN  /\ ParagraphFollows(n)
            /\ TextBelow(n) = <<"N", " ", "1">>
            /\ results[k].meta.table_name = <<"N", " ", "1">>
            /\ Len(results[k].df.rows) = 1
            /\ results[k].df.rows[1] = << <<"1", "2">> >>

\* the paragraph blocks among the first b blocks whose XML signals a page
\* boundary
BreaksUpTo(b) ==
    {q \in 1..b : blocks[q].kind = "paragraph" /\ SignalsPageBreak(blocks[q])}

\* the state part of C23: the counter is 1 plus the number of paragraphs
\* processed so far that signal a page boundary, every extracted table
\* carries the counter's value at its block, and total_pages is the final
\* value
PageCounterExact ==
    /\ page_number = 1 + Cardinality(BreaksUpTo(pos))
    /\ \A k \in 1..Len(results) :
          results[k].meta.page_number =
              1 + Cardinality(BreaksUpTo(TableBlockIndex(results[k].meta.table_index)))
    /\ (walk = "done" /\ blocks # <<>>) =>
          extracted.total_pages = 1 + Cardinality(BreaksUpTo(Len(blocks)))

\* C23: the page counter starts at 1, never decreases and is 1 plus the
\* number of paragraph blocks processed so far whose content signals a page
\* boundary, each counted once; a table's page_number is the counter when
\* the table is reached and total_pages is the counter's final value.
C23_PageCounter ==
    /\ [](pos = 0 => page_number = 1)
    /\ [][page_number' >= page_number]_vars
    /\ []PageCounterExact

\* a table on page 2, after a paragraph that holds two page-break markers
C23_Witness ==
    /\ walk = "done"
    /\ Len(results) >= 1
    /\ results[1].meta.page_number = 2
    /\ extracted.total_pages = 2
    /\ \E q \in 1..Len(blocks) : blocks[q].kind = "paragraph" /\ Len(blocks[q].brk) = 2

\* the text of block q as the extractor reads it
ParagraphText(q) == Strip(CollapseSpaces(blocks[q].text))

\* block q is a paragraph with a non-empty text and the block right after
\* it is not a table
IsStray(q) ==
    /\ blocks[q].kind = "paragraph"
    /\ ParagraphText(q) # <<>>
    /\ ~(q < Len(blocks) /\ blocks[q + 1].kind = "table")

\* the page of paragraph q, its own page break counted
PageOfParagraph(q) == 1 + Cardinality(BreaksUpTo(q))

\* the texts of the stray paragraphs of page p, in document order
StrayTextsOn(p) ==
    LET OnPage(q) == IsStray(q) /\ PageOfParagraph(q) = p
        where == SelectSeq([q \in 1..Len(blocks) |-> q], OnPage)
    IN  [k \in 1..Len(where) |-> ParagraphText(where[k])]

\* C24: the stray-text output holds exactly the paragraphs with a non-empty
\* text that are not immediately followed by a table, each once, under the
\* page current after its own page break was counted, in document order
\* within a page; the list is in strictly increasing pageNumber order and
\* no entry has an empty paragraph list.
C24_StrayTextExact ==
    walk = "done" =>
        LET st == extracted.stray_text
        IN  /\ \A k \in 1..Len(st) :
                  /\ st[k].paragraphs # <<>>
                  /\ k > 1 => st[k - 1].pageNumber < st[k].pageNumber
                  /\ [i \in 1..Len(st[k].paragraphs) |-> st[k].paragraphs[i].text]
                        = StrayTextsOn(st[k].pageNumber)
            /\ \A q \in 1..Len(blocks) :
                  IsStray(q) => \E k \in 1..Len(st) : st[k].pageNumber = PageOfParagraph(q)

\* two pages of stray text, the second with two paragraphs
C24_Witness ==
    /\ walk = "done"
    /\ Len(extracted.stray_text) = 2
    /\ Len(extracted.stray_text[2].paragraphs) = 2
    /\ extracted.stray_text[2].paragraphs[1].text # extracted.stray_text[2].paragraphs[2].text

\* the paragraph at block q can name a table: its text is non-empty and
\* shorter than 80 characters
CanName(q) ==
    /\ blocks[q].kind = "paragraph"
    /\ ParagraphText(q) # <<>>
    /\ Len(ParagraphText(q)) < NameMaxLen

\* the name of a kept table comes from the paragraph right below it or,
\* failing that, from its frame alone
NameFromBelowOrFrame ==
    \A k \in 1..Len(results) :
        LET n == results[k].meta.table_index
            q == TableBlockIndex(n) + 2
            df == results[k].df
        IN  results[k].meta.table_name =
                IF q <= Len(blocks) /\ CanName(q) THEN ParagraphText(q)
                ELSE IF detect_table_name_first_row(df) # None
                THEN detect_table_name_first_row(df)
                ELSE HeaderConcatName(df, n)

\* the step over the paragraph that named the table right before it: the
\* paragraph is added to the stray text of its page unless the block after
\* it is a table
NamingParagraphStep ==
    ( /\ walk = "walking"
      /\ pos >= 1
      /\ pos' = pos + 1
      /\ blocks[pos].kind = "table"
      /\ CanName(pos + 1)
      /\ Len(results) > 0
      /\ results[Len(results)].meta.table_index = table_count )
    => /\ results[Len(results)].meta.table_name = ParagraphText(pos + 1)
       /\ IF pos + 1 < Len(blocks) /\ blocks[pos + 2].kind = "table"
          THEN stray_text_by_page' = stray_text_by_page
          ELSE LET p == page_number'
                   old == IF p \in DOMAIN stray_text_by_page
                          THEN stray_text_by_page[p] ELSE <<>>
               IN  /\ p \in DOMAIN stray_text_by_page'
                   /\ Len(stray_text_by_page'[p]) = Len(old) + 1
                   /\ SubSeq(stray_text_by_page'[p], 1, Len(old)) = old
                   /\ stray_text_by_page'[p][Len(old) + 1].text = ParagraphText(pos + 1)

\* C30: in extract_all_with_pages the paragraph used as a table's name under
\* priority 1 is left out of the stray text only when it is itself
\* immediately followed by a table block; otherwise it is both the table's
\* name and a stray-text entry; the paragraph immediately before a table is
\* never a name candidate for that table
C30_NameParagraphAndStrayText ==
    /\ []NameFromBelowOrFrame
    /\ [][NamingParagraphStep]_vars

\* a table between two paragraphs, named by the one below it, which is in
\* the stray text as well
C30_Witness ==
    /\ walk = "done"
    /\ Len(blocks) = 3
    /\ blocks[1].kind = "paragraph" /\ ParagraphText(1) = <<"N">>
    /\ blocks[2].kind = "table"
    /\ CanName(3)
    /\ Len(results) = 1
    /\ results[1].meta.table_name = ParagraphText(3)
    /\ ParagraphText(3) # ParagraphText(1)
    /\ \E k \in 1..Len(extracted.stray_text) :
          \E i \in 1..Len(extracted.stray_text[k].paragraphs) :
              extracted.stray_text[k].paragraphs[i].text = ParagraphText(3)

\* the frames of the log that are not empty, in document order
FramesKept ==
    LET NotEmpty(e) == ~DfEmpty(e.df)
        kept == SelectSeq(log, NotEmpty)
    IN  [k \in 1..Len(kept) |-> kept[k].df]

\* C26: when the frame cannot be built with the synthesized names it is
\* built with positional columns, and when that fails too the result is
\* empty; neither failure leaves extract_all or extract_all_with_pages as
\* an exception: the pass completes, the tables it returns are the
\* non-empty results in document order, a frame with positional columns
\* among them.
C26_FrameFailureContained ==
    /\ walk # "raised"
    /\ \A n \in 1..Len(log) :
          /\ log[n].pandas = "both_fail" => DfEmpty(log[n].df)
          /\ log[n].pandas = "named_fails" => "positional" \in DOMAIN log[n].df
    /\ walk = "done" =>
          [k \in 1..Len(extracted.tables) |-> extracted.tables[k].df] = FramesKept

----------------------------------------------------------------------------
(* Properties of check_condition and evaluate_rule *)

RecognisedKinds ==
    {"header_contains", "header_contains_ignore_case",
     "not_header_contains_ignore_case", "header_regex",
     "data_contains", "data_regex",
     "context_contains", "context_contains_ignore_case",
     "not_context_contains_ignore_case"}

IsComposite(c) == "type" \in DOMAIN c /\ c.type \in {"and", "or"}

\* a leaf whose kind is none of the recognised kinds (or that names no kind)
UnknownLeaf(c) ==
    ~IsComposite(c) /\ ("type" \in DOMAIN c => c.type \notin RecognisedKinds)

\* the tree with every unrecognised leaf replaced by an `or` without
\* children, a condition that holds for no table
RECURSIVE WithoutUnknown(_)
WithoutUnknown(c) ==
    IF IsComposite(c)
    THEN [type |-> c.type,
          conditions |-> [k \in 1..Len(c.conditions) |-> WithoutUnknown(c.conditions[k])]]
    ELSE IF UnknownLeaf(c) THEN [type |-> "or", conditions |-> <<>>]
    ELSE c

RECURSIVE HasUnknown(_)
HasUnknown(c) ==
    IF IsComposite(c) THEN \E k \in 1..Len(c.conditions) : HasUnknown(c.conditions[k])
    ELSE UnknownLeaf(c)

ConditionChecked == call.fn = "check_condition" /\ answer.ended

\* C13: check_condition returns false, and never raises, for a leaf of an
\* unrecognised kind; inside an and/or tree, at any depth, such a leaf
\* counts as a condition that does not hold.
C13_UnknownKindIsFalse ==
    ConditionChecked =>
        /\ UnknownLeaf(call.arg) => answer.ret = "false"
        /\ answer.ret = check_condition(WithoutUnknown(call.arg), fields.header_text,
                                        fields.first_data_row, fields.context)

\* an unrecognised leaf two levels down in a tree that holds
C13_Witness ==
    /\ ConditionChecked
    /\ call.arg = [type |-> "or",
                   conditions |-> <<[type |-> "or",
                                     conditions |-> <<LeafUnknown, LeafHeaderP>>]>>]
    /\ answer.ret = "true"

\* whether a condition holds for the texts of the call, as the claim
\* composes it: a leaf by its own test, an `and` node when all of its
\* children hold, an `or` node when at least one child holds
RECURSIVE Holds(_)
Holds(c) ==
    IF IsComposite(c)
    THEN IF c.type = "and"
         THEN \A k \in 1..Len(c.conditions) : Holds(c.conditions[k])
         ELSE \E k \in 1..Len(c.conditions) : Holds(c.conditions[k])
    ELSE CheckLeaf(Get(c, "type", None), Get(c, "value", <<>>),
                   fields.header_text, fields.first_data_row, fields.context) = "true"

RuleEvaluated == call.fn = "evaluate_rule" /\ answer.ended

\* C19: a condition tree evaluates true iff it holds under the and/or
\* composition, to any depth; a rule's conditions match iff every
\* top-level condition holds, so a rule without conditions matches.
C19_AndOrComposition ==
    /\ (ConditionChecked /\ answer.ret # "raise") =>
            /\ answer.ret \in {"true", "false"}
            /\ answer.ret = "true" <=> Holds(call.arg)
    /\ (RuleEvaluated /\ ~answer.ret.raised
            /\ "subrules" \notin DOMAIN call.arg /\ "target" \in DOMAIN call.arg) =>
            LET all == \A k \in 1..Len(call.arg.conditions) : Holds(call.arg.conditions[k])
            IN  answer.ret.target = IF all THEN call.arg.target ELSE None

\* an `and` node over an `or` node with one child that holds and an `and`
\* node without children evaluated true
C19_Witness ==
    /\ ConditionChecked
    /\ call.arg = [type |-> "and",
                   conditions |-> <<[type |-> "or",
                                     conditions |-> <<LeafUnknown, LeafHeaderP>>],
                                    [type |-> "and", conditions |-> <<>>]>>]
    /\ answer.ret = "true"

\* all conditions of a rule or subrule hold (none when it lists none)
AllHold(r) ==
    \A k \in 1..Len(Get(r, "conditions", <<>>)) : Holds(r.conditions[k])

\* the subrules of the evaluated rule whose conditions all hold
MatchingSubrules ==
    {k \in 1..Len(call.arg.subrules) : AllHold(call.arg.subrules[k])}

\* C20: for a rule whose top-level conditions hold, evaluate_rule returns
\* the target of the first subrule, in list order, whose conditions all
\* hold; with subrules of which none holds, the rule's own target when
\* that is not VARIOUS; without subrules, the rule's own target.
C20_SubruleTarget ==
    (RuleEvaluated /\ ~answer.ret.raised /\ AllHold(call.arg)) =>
        IF "subrules" \in DOMAIN call.arg
        THEN IF MatchingSubrules # {}
             THEN LET f == CHOOSE k \in MatchingSubrules :
                                \A m \in MatchingSubrules : k <= m
                  IN  answer.ret.target = Get(call.arg.subrules[f], "target", None)
             ELSE Get(call.arg, "target", None) # "VARIOUS" =>
                    answer.ret.target = Get(call.arg, "target", None)
        ELSE answer.ret.target = Get(call.arg, "target", None)

\* two subrules hold and the first of them supplied the target of a rule
\* whose own target is VARIOUS
C20_Witness ==
    /\ RuleEvaluated
    /\ AllHold(call.arg)
    /\ call.arg.conditions # <<>>
    /\ "subrules" \in DOMAIN call.arg
    /\ Get(call.arg, "target", None) = "VARIOUS"
    /\ Cardinality(MatchingSubrules) = 2
    /\ call.arg.subrules[2].target # "Flange_Table"
    /\ answer.ret.target = "Flange_Table"

\* the leaf kinds by the field they test and the comparator they apply
LeafTable ==
    {[type |-> "header_contains", field |-> "header_text", cmp |-> "contains"],
     [type |-> "header_contains_ignore_case", field |-> "header_text", cmp |-> "icontains"],
     [type |-> "not_header_contains_ignore_case", field |-> "header_text", cmp |-> "not_icontains"],
     [type |-> "header_regex", field |-> "header_text", cmp |-> "regex"],
     [type |-> "data_contains", field |-> "first_data_row", cmp |-> "contains"],
     [type |-> "data_contains_ignore_case", field |-> "first_data_row", cmp |-> "icontains"],
     [type |-> "not_data_contains_ignore_case", field |-> "first_data_row", cmp |-> "not_icontains"],
     [type |-> "data_regex", field |-> "first_data_row", cmp |-> "regex"],
     [type |-> "context_contains", field |-> "context", cmp |-> "contains"],
     [type |-> "context_contains_ignore_case", field |-> "context", cmp |-> "icontains"],
     [type |-> "not_context_contains_ignore_case", field |-> "context", cmp |-> "not_icontains"],
     [type |-> "context_regex", field |-> "context", cmp |-> "regex"]}

\* what a comparator says of a value and a text
Compare(cmp, val, text) ==
    CASE cmp = "contains" -> Contains(val, text)
      [] cmp = "icontains" -> Contains(LowerStr(val), LowerStr(text))
      [] cmp = "not_icontains" -> ~Contains(LowerStr(val), LowerStr(text))
      [] cmp = "regex" -> RegexSearch(val, text)

\* C21: a leaf on any of the three text fields with any of the four
\* comparators evaluates to the comparator's result on that field (for a
\* regex leaf: when the pattern compiles).
C21_EveryFieldEveryComparator ==
    ConditionChecked =>
        \A e \in LeafTable :
            ( /\ "type" \in DOMAIN call.arg
              /\ call.arg.type = e.type
              /\ e.cmp = "regex" => RegexCompiles(call.arg.value) )
            => answer.ret = Bool3(Compare(e.cmp, call.arg.value, fields[e.field]))

----------------------------------------------------------------------------
(* Properties of analyze_column_types *)

DecimalDigits == {"0", "1", "2", "3", "4", "5", "6", "7", "8", "9"}

AllDigits(t) == t # <<>> /\ \A k \in 1..Len(t) : t[k] \in DecimalDigits

\* digits, optionally followed by one decimal point and digits
Decimal(u) ==
    \/ AllDigits(u)
    \/ \E k \in 1..Len(u) :
        /\ u[k] = "."
        /\ AllDigits(SubSeq(u, 1, k - 1))
        /\ AllDigits(SubSeq(u, k + 1, Len(u)))

\* the label the claim gives a cell text, with `signs` the leading signs
\* a float may carry
LabelWithSigns(t, signs) ==
    IF t = <<>> THEN "empty"
    ELSE IF AllDigits(t) THEN "int"
    ELSE IF Decimal(t) \/ (t[1] \in signs /\ Decimal(Tail(t))) THEN "float"
    ELSE "text"

TypesAnalyzed == call.fn = "analyze_column_types" /\ answer.ended

\* C18: every cell gets exactly one label: empty iff the text is blank, int
\* iff all characters are decimal digits, float iff it is an optional
\* leading plus or minus sign, digits, and optionally one decimal point
\* followed by digits, text otherwise.
C18_CellLabels ==
    TypesAnalyzed =>
        /\ Len(answer.ret) = Len(call.arg)
        /\ \A i \in 1..Len(call.arg) :
              answer.ret[i] = LabelWithSigns(call.arg[i], {"+", "-"})

----------------------------------------------------------------------------
(* Properties of parse_table_robust *)

\* seq holds no value twice
PairwiseDistinct(seq) ==
    \A i, j \in 1..Len(seq) : i # j => seq[i] # seq[j]

\* C28: in robust mode the header names the de-duplication step produces
\* are pairwise distinct for every first row, so every grid column is a
\* column of its own in the result and holds that grid column's cells
C28_RobustHeadersDistinct ==
    (call.fn = "parse_table_robust" /\ answer.ended) =>
        LET t == call.arg
            cols == Len(t[1])
            names == DedupHeaders(Grid(t, cols)[1])
        IN  /\ PairwiseDistinct(names)
            /\ Len(t) > 1 =>
                  /\ Len(answer.ret.columns) = cols
                  /\ \A r \in 2..Len(t) : \A c \in 1..cols :
                        /\ names[c] \in DOMAIN answer.ret.rows[r - 1]
                        /\ answer.ret.rows[r - 1][names[c]] = clean_text(t[r][c])

----------------------------------------------------------------------------
(* Properties of the desktop UI *)

LiveThreads == {w \in 1..Len(threads) : threads[w].pc # "done"}

\* finish_extraction has run once for every thread that ended and scheduled
\* it, and the button is disabled exactly while one call is outstanding
OneFinishEach ==
    /\ finish_calls <= Len(threads)
    /\ Len(threads) <= finish_calls + 1
    /\ btn_extract = "disabled" <=> finish_calls < Len(threads)
    /\ Cardinality(LiveThreads) <= 1

\* a call of finish_extraction is one call and re-enables the button
FinishReenables ==
    finish_calls' # finish_calls =>
        finish_calls' = finish_calls + 1 /\ btn_extract' = "normal"

\* a thread leaves event.wait() only once the dialog stored its result
BlockedUntilAnswered ==
    \A w \in 1..Len(threads) :
        (threads[w].pc = "waiting" /\ threads'[w].pc # "waiting") =>
            threads[w].event /\ "val" \in DOMAIN threads[w].result

\* a thread is started only while the button is enabled
NoSecondWorker ==
    Len(threads') > Len(threads) =>
        btn_extract = "normal" /\ LiveThreads = {}

\* C29: every extraction started by start_extraction eventually leads to
\* exactly one call of finish_extraction, which re-enables the button,
\* whether the extraction succeeds or raises, when every dialog opened is
\* eventually answered; the worker stays blocked in header_selection_callback
\* until the dialog stored its result; no second worker is started while the
\* button is disabled
C29_ExtractionFinishesOnce ==
    /\ \A w \in 1..MaxExtractions : (Len(threads) >= w) ~> (finish_calls >= w)
    /\ []OneFinishEach
    /\ [][FinishReenables]_vars
    /\ [][BlockedUntilAnswered]_vars
    /\ [][NoSecondWorker]_vars

\* two extractions have finished, one with success and one with an error,
\* and a dialog was answered on the way
C29_Witness ==
    /\ finish_calls = 2
    /\ btn_extract = "normal"
    /\ \E w \in 1..Len(threads) : threads[w].status = "success"
    /\ \E w \in 1..Len(threads) :
          threads[w].status = "error" /\ "val" \in DOMAIN threads[w].result

====
